---- MODULE Spec2Model ----
(***************************************************************************)
(* Model of agent_contracts: NodeRegistry (registry.py) and                *)
(* GenericSupervisor (supervisor.py), driven by a caller's turn loop.      *)
(***************************************************************************)
EXTENDS Integers, Sequences, FiniteSets, TLC

VARIABLES
    registry,   \* the NodeRegistry handed to the supervisor
    self,       \* the GenericSupervisor
    state,      \* the caller's workflow state
    last,       \* the last supervisor call: its input state and its result
    start,      \* the iteration counter the session started from
    runs,       \* run() calls that returned without tripping the guard
    unit        \* the last call of a registry or helper method on its own

vars == <<registry, self, state, last, start, runs, unit>>

(***************************************************************************)
(* Bounds of the model.                                                    *)
(***************************************************************************)
\* largest max_iterations value handed to the constructor
MaxIterArg == 2

\* longest match list handed to _select_top_matches
MaxMatches == 5

\* largest priority of a match in such a list (the smallest is 0)
MaxPriority == 3

(***************************************************************************)
(* Python values.  A value is a record: k is the type, s the text of a     *)
(* str, i the number of an int/bool, m the items of a dict.                *)
(***************************************************************************)
EmptyMap == [x \in {} |-> 0]

PyNone == [k |-> "none", s |-> "", i |-> 0, m |-> EmptyMap]

PyStr(x) == [k |-> "str", s |-> x, i |-> 0, m |-> EmptyMap]

PyInt(n) == [k |-> "int", s |-> "", i |-> n, m |-> EmptyMap]

PyBool(b) == [k |-> "bool", s |-> "", i |-> IF b THEN 1 ELSE 0, m |-> EmptyMap]

PyDict(f) == [k |-> "map", s |-> "", i |-> 0, m |-> f]

\* the list ["x"]
PyList == [k |-> "list", s |-> "x", i |-> 0, m |-> EmptyMap]

IsDict(v) == v.k = "map"

\* key in d
HasKey(d, key) == IsDict(d) /\ key \in DOMAIN d.m

\* d.get(key, default) on a dict d
DictGet(d, key, default) == IF key \in DOMAIN d.m THEN d.m[key] ELSE default

\* {**d, key: value}
DictPut(d, key, value) ==
    PyDict([x \in (DOMAIN d.m) \cup {key} |-> IF x = key THEN value ELSE d.m[x]])

\* bool(v)
Truthy(v) ==
    CASE v.k = "none" -> FALSE
      [] v.k = "str"  -> v.s # ""
      [] v.k = "int"  -> v.i # 0
      [] v.k = "bool" -> v.i # 0
      [] v.k = "map"  -> DOMAIN v.m # {}
      [] OTHER        -> TRUE

\* a == b
PyEq(a, b) ==
    IF a.k \in {"int", "bool"} /\ b.k \in {"int", "bool"}
    THEN a.i = b.i
    ELSE a = b

(***************************************************************************)
(* registry.py                                                             *)
(***************************************************************************)
\* TriggerCondition: when / when_not are dicts, kept as sequences of
\* <<key, expected>> in insertion order; a key is the sequence of its
\* dot-separated parts.
TriggerCondition(priority, when, when_not) ==
    [priority |-> priority, when |-> when, when_not |-> when_not]

\* NodeContract with reads=[] and writes=[]
NodeContract(name, supervisor, trigger_conditions) ==
    [name |-> name, supervisor |-> supervisor,
     trigger_conditions |-> trigger_conditions, reads |-> <<>>, writes |-> <<>>]

\* the same contract declaring the slices it reads and writes
ContractWith(contract, reads, writes) ==
    [contract EXCEPT !.reads = reads, !.writes = writes]

\* a node class: its __name__ and its CONTRACT attribute, <<>> when the class
\* has none
NodeClass(name, contract) == [name |-> name, CONTRACT |-> contract]

\* d[key] = value on a dict kept as the sequence of its <<key, value>> items:
\* an existing key keeps its place, a new one goes last
RECURSIVE Store(_, _, _)
Store(items, key, value) ==
    IF items = <<>> THEN <<(<<key, value>>)>>
    ELSE IF Head(items)[1] = key THEN <<(<<key, value>>)>> \o Tail(items)
    ELSE <<Head(items)>> \o Store(Tail(items), key, value)

\* d[contract.name] = contract on _contracts, kept as the sequence of its
\* values (a contract carries its key)
RECURSIVE StoreContract(_, _)
StoreContract(contracts, contract) ==
    IF contracts = <<>> THEN <<contract>>
    ELSE IF Head(contracts).name = contract.name THEN <<contract>> \o Tail(contracts)
    ELSE <<Head(contracts)>> \o StoreContract(Tail(contracts), contract)

\* the membership test answering that no name is registered yet
IsRegistered_Never(reg, name) == FALSE

\* contract.name in self._nodes
IsRegistered(reg, name) == \E n \in 1..Len(reg.nodes) : reg.nodes[n][1] = name

\* what register leaves behind: the registry, and whether it raised ValueError
Registered(raised, reg) == [raised |-> raised, registry |-> reg]

\* the warnings of the loop of _validate_contract over one slice list
RECURSIVE SliceWarnings(_, _, _)
SliceWarnings(reg, names, writing) ==
    IF names = <<>> THEN <<>>
    ELSE (IF Head(names) \notin reg.valid_slices
          THEN <<(<<IF writing THEN "Unknown slice in writes" ELSE "Unknown slice in reads",
                    Head(names)>>)>>
          ELSE <<>>)
         \o (IF writing /\ Head(names) = "request"
             THEN <<(<<"Writing to 'request' slice is discouraged", Head(names)>>)>>
             ELSE <<>>)
         \o SliceWarnings(reg, Tail(names), writing)

\* NodeRegistry._validate_contract: the warnings it logs
_validate_contract(reg, contract) ==
    SliceWarnings(reg, contract.reads, FALSE) \o SliceWarnings(reg, contract.writes, TRUE)

\* a validation that rejects the contract it warns about
ValidationRaises_OnWarning(reg, contract) == _validate_contract(reg, contract) # <<>>

\* whether self._validate_contract(contract) raises: it has no raise statement
ValidationRaises(reg, contract) == FALSE

\* NodeRegistry.register
register(reg, node_class) ==
    IF node_class.CONTRACT = <<>> THEN Registered(TRUE, reg)
    ELSE IF ValidationRaises(reg, node_class.CONTRACT[1]) THEN Registered(TRUE, reg)
    ELSE IF IsRegistered(reg, node_class.CONTRACT[1].name) THEN Registered(TRUE, reg)
    ELSE Registered(FALSE,
            [reg EXCEPT !.nodes = Store(@, node_class.CONTRACT[1].name, node_class.name),
                        !.contracts = StoreContract(@, node_class.CONTRACT[1])])

\* NodeRegistry.get_node_class: <<>> for None, else <<the class>>
get_node_class(reg, name) ==
    LET hits == {n \in 1..Len(reg.nodes) : reg.nodes[n][1] = name}
    IN IF hits = {} THEN <<>> ELSE <<reg.nodes[CHOOSE n \in hits : TRUE][2]>>

\* NodeRegistry.get_all_nodes
get_all_nodes(reg) == [n \in 1..Len(reg.nodes) |-> reg.nodes[n][1]]

\* NodeRegistry.get_supervisor_nodes
RECURSIVE get_supervisor_nodes(_, _)
get_supervisor_nodes(contracts, supervisor) ==
    IF contracts = <<>> THEN <<>>
    ELSE (IF Head(contracts).supervisor = supervisor
          THEN <<Head(contracts).name>> ELSE <<>>)
         \o get_supervisor_nodes(Tail(contracts), supervisor)

\* NodeRegistry.get_contract: the contract, or <<>> for None
get_contract(contracts, name) ==
    LET hits == {n \in 1..Len(contracts) : contracts[n].name = name}
    IN IF hits = {} THEN <<>> ELSE <<contracts[CHOOSE n \in hits : TRUE]>>

\* a descent that hands back the value it cannot descend into
RECURSIVE Descend_KeepsLast(_, _)
Descend_KeepsLast(value, parts) ==
    IF parts = <<>> THEN value
    ELSE IF ~IsDict(value) THEN value
    ELSE Descend_KeepsLast(DictGet(value, Head(parts), PyNone), Tail(parts))

\* the nested descent of _get_state_value over parts[1:]
RECURSIVE Descend(_, _)
Descend(value, parts) ==
    IF parts = <<>> THEN value
    ELSE IF ~IsDict(value) THEN PyNone
    ELSE Descend(DictGet(value, Head(parts), PyNone), Tail(parts))

\* the flat-key search of _get_state_value over list(self._valid_slices)
RECURSIVE FlatSearch(_, _, _)
FlatSearch(st, order, key) ==
    IF order = <<>> THEN PyNone
    ELSE LET slice_data == DictGet(st, Head(order), PyDict(EmptyMap))
         IN IF HasKey(slice_data, key) THEN slice_data.m[key]
            ELSE FlatSearch(st, Tail(order), key)

\* NodeRegistry._get_state_value
_get_state_value(reg, st, key) ==
    IF Len(key) > 1
    THEN Descend(DictGet(st, key[1], PyDict(EmptyMap)), Tail(key))
    ELSE FlatSearch(st, reg.slice_order, key[1])

\* every expected value compared by equality, booleans included
matches_expected_ByEquality(actual, expected) == PyEq(actual, expected)

\* matches_expected, the closure of _evaluate_condition
matches_expected(actual, expected) ==
    IF expected = PyBool(TRUE) THEN Truthy(actual)
    ELSE IF expected = PyBool(FALSE) THEN ~Truthy(actual)
    ELSE PyEq(actual, expected)

\* a condition without predicates taken as matching nothing
_evaluate_condition_NeedsPredicate(reg, condition, st) ==
    /\ condition.when # <<>> \/ condition.when_not # <<>>
    /\ \A n \in 1..Len(condition.when) :
          matches_expected(_get_state_value(reg, st, condition.when[n][1]),
                           condition.when[n][2])
    /\ \A n \in 1..Len(condition.when_not) :
          ~matches_expected(_get_state_value(reg, st, condition.when_not[n][1]),
                            condition.when_not[n][2])

\* NodeRegistry._evaluate_condition
_evaluate_condition(reg, condition, st) ==
    /\ \A n \in 1..Len(condition.when) :
          matches_expected(_get_state_value(reg, st, condition.when[n][1]),
                           condition.when[n][2])
    /\ \A n \in 1..Len(condition.when_not) :
          ~matches_expected(_get_state_value(reg, st, condition.when_not[n][1]),
                            condition.when_not[n][2])

\* the highest priority of all the conditions, satisfied or not
HighestPriority_AnyCondition(reg, contract, st) ==
    LET all == 1..Len(contract.trigger_conditions)
    IN IF all = {} THEN <<>>
       ELSE <<CHOOSE p \in {contract.trigger_conditions[n].priority : n \in all} :
                \A n \in all : contract.trigger_conditions[n].priority <= p>>

\* the priority of the first satisfied condition, the loop left at the first hit
HighestPriority_FirstMatch(reg, contract, st) ==
    LET sat == {n \in 1..Len(contract.trigger_conditions) :
                  _evaluate_condition(reg, contract.trigger_conditions[n], st)}
    IN IF sat = {} THEN <<>>
       ELSE <<contract.trigger_conditions[CHOOSE n \in sat : \A o \in sat : n <= o].priority>>

\* a contract without conditions reported at priority 0
HighestPriority_EmptyMatches(reg, contract, st) ==
    LET sat == {n \in 1..Len(contract.trigger_conditions) :
                  _evaluate_condition(reg, contract.trigger_conditions[n], st)}
    IN IF contract.trigger_conditions = <<>> THEN <<0>>
       ELSE IF sat = {} THEN <<>>
       ELSE <<CHOOSE p \in {contract.trigger_conditions[n].priority : n \in sat} :
                \A n \in sat : contract.trigger_conditions[n].priority <= p>>

\* the inner loop of evaluate_triggers: <<>> for None, else <<highest>>
HighestPriority(reg, contract, st) ==
    LET sat == {n \in 1..Len(contract.trigger_conditions) :
                  _evaluate_condition(reg, contract.trigger_conditions[n], st)}
    IN IF sat = {} THEN <<>>
       ELSE <<CHOOSE p \in {contract.trigger_conditions[n].priority : n \in sat} :
                \A n \in sat : contract.trigger_conditions[n].priority <= p>>

\* an insertion that puts a candidate before the earlier ones of its priority
RECURSIVE InsertDesc_BeforeTies(_, _)
InsertDesc_BeforeTies(sorted, c) ==
    IF sorted = <<>> THEN <<c>>
    ELSE IF Head(sorted)[1] > c[1]
         THEN <<Head(sorted)>> \o InsertDesc_BeforeTies(Tail(sorted), c)
    ELSE <<c>> \o sorted

\* candidates.sort(key=lambda x: x[0], reverse=True): a stable sort
RECURSIVE InsertDesc(_, _)
InsertDesc(sorted, c) ==
    IF sorted = <<>> THEN <<c>>
    ELSE IF Head(sorted)[1] >= c[1] THEN <<Head(sorted)>> \o InsertDesc(Tail(sorted), c)
    ELSE <<c>> \o sorted

\* the candidates returned in registration order, the sort left out
SortDesc_Unsorted(cands) == cands

RECURSIVE SortDesc(_)
SortDesc(cands) ==
    IF cands = <<>> THEN <<>>
    ELSE InsertDesc(SortDesc(SubSeq(cands, 1, Len(cands) - 1)), cands[Len(cands)])

RECURSIVE CollectCandidates(_, _, _)
CollectCandidates(reg, names, st) ==
    IF names = <<>> THEN <<>>
    ELSE LET hp == HighestPriority(reg, get_contract(reg.contracts, Head(names))[1], st)
         IN (IF hp = <<>> THEN <<>> ELSE <<(<<hp[1], Head(names)>>)>>)
            \o CollectCandidates(reg, Tail(names), st)

\* the handlers of every workflow evaluated
evaluate_triggers_AllWorkflows(reg, supervisor, st) ==
    SortDesc(CollectCandidates(reg, get_all_nodes(reg), st))

\* NodeRegistry.evaluate_triggers
evaluate_triggers(reg, supervisor, st) ==
    SortDesc(CollectCandidates(reg, get_supervisor_nodes(reg.contracts, supervisor), st))

(***************************************************************************)
(* supervisor.py                                                           *)
(***************************************************************************)
\* SupervisorConfig.max_iterations, the default of get_config()
DefaultMaxIterations == 10

\* SupervisorConfig.terminal_response_types, the default of get_config()
DefaultTerminalTypes == {}

\* GenericSupervisor.__init__; an omitted argument (None) is <<>>
__init__(supervisor_name, llm, max_iterations, terminal_response_types, context_builder) ==
    [name |-> supervisor_name,
     llm |-> llm,
     context_builder |-> context_builder,
     max_iterations |->
        IF max_iterations # <<>> /\ max_iterations[1] # 0
        THEN max_iterations[1] ELSE DefaultMaxIterations,
     terminal_response_types |->
        IF terminal_response_types # <<>> /\ terminal_response_types[1] # {}
        THEN terminal_response_types[1] ELSE DefaultTerminalTypes]

\* f"{self.name}_iteration"
iteration_key(name) == name \o "_iteration"

\* RoutingDecision(selected_node, RoutingReason(decision_type, matched_rules,
\* llm_used, llm_reasoning)), with the calls the invocation made
RoutingDecision(selected_node, decision_type, matched_rules, llm_used, llm_reasoning, calls) ==
    [raised |-> FALSE, selected_node |-> selected_node,
     decision_type |-> decision_type, matched_rules |-> matched_rules,
     llm_used |-> llm_used, llm_reasoning |-> llm_reasoning, calls |-> calls]

\* an exception leaving decide_with_trace
Raised(calls) ==
    [raised |-> TRUE, selected_node |-> "", decision_type |-> "",
     matched_rules |-> <<>>, llm_used |-> FALSE, llm_reasoning |-> "",
     calls |-> calls]

\* calls made so far: evaluate_triggers, context_builder, ainvoke
Calls(e, h, l) == [evaluate_triggers |-> e, context_builder |-> h, llm |-> l]

\* _check_immediate_rules reading response.get("type")
_check_immediate_rules_WrongKey(slf, st) ==
    LET response == DictGet(st, "response", PyDict(EmptyMap))
        response_type == DictGet(response, "type", PyNone)
    IN IF ~IsDict(response) THEN "raise"
       ELSE IF IsDict(response_type) THEN "raise"
       ELSE IF response_type.k = "str" /\ response_type.s \in slf.terminal_response_types
            THEN "done"
       ELSE ""

\* GenericSupervisor._check_immediate_rules: "raise", "done" or "" for None
_check_immediate_rules(slf, st) ==
    LET response == DictGet(st, "response", PyDict(EmptyMap))
        response_type == DictGet(response, "response_type", PyNone)
    IN IF ~IsDict(response) THEN "raise"
       ELSE IF IsDict(response_type) THEN "raise"
       ELSE IF response_type.k = "str" /\ response_type.s \in slf.terminal_response_types
            THEN "done"
       ELSE ""

\* the loop of _select_top_matches from index n on
RECURSIVE SelectFrom(_, _, _)
SelectFrom(matches, n, last_prio) ==
    IF n > Len(matches) THEN <<>>
    ELSE IF n - 1 < 3
         THEN <<matches[n][2]>> \o SelectFrom(matches, n + 1, matches[n][1])
    ELSE IF matches[n][1] = last_prio
         THEN <<matches[n][2]>> \o SelectFrom(matches, n + 1, last_prio)
    ELSE <<>>

\* the first three matches only, ties with the third left out
_select_top_matches_TopThree(matches) ==
    [n \in 1..(IF Len(matches) < 3 THEN Len(matches) ELSE 3) |-> matches[n][2]]

\* GenericSupervisor._select_top_matches
_select_top_matches(matches) == SelectFrom(matches, 1, -1)

\* the description _build_matched_rules gives of the first condition whose
\* priority equals the reported one ("(unknown)" when there is none)
ConditionStr(contract, priority) ==
    LET hits == {n \in 1..Len(contract.trigger_conditions) :
                   contract.trigger_conditions[n].priority = priority}
    IN IF hits = {} THEN [form |-> "(unknown)", items |-> <<>>]
       ELSE LET condition ==
                  contract.trigger_conditions[CHOOSE n \in hits : \A o \in hits : n <= o]
            IN IF condition.when # <<>>
               THEN [form |-> "when", items |-> condition.when]
               ELSE IF condition.when_not # <<>>
               THEN [form |-> "when_not", items |-> condition.when_not]
               ELSE [form |-> "(always)", items |-> <<>>]

\* GenericSupervisor._build_matched_rules
RECURSIVE _build_matched_rules(_, _)
_build_matched_rules(reg, matches) ==
    IF matches = <<>> THEN <<>>
    ELSE LET contract == get_contract(reg.contracts, Head(matches)[2])
         IN (IF contract = <<>> THEN <<>>
             ELSE <<[node |-> Head(matches)[2],
                     condition |-> ConditionStr(contract[1], Head(matches)[1]),
                     priority |-> Head(matches)[1]]>>)
            \o _build_matched_rules(reg, Tail(matches))

\* NodeRegistry.build_llm_prompt called as
\* build_llm_prompt(self.name, state, context=context): "raise" for the
\* TypeError of a keyword the method does not take, else the nodes listed
build_llm_prompt(reg, supervisor, keywords) ==
    IF ~(keywords \subseteq reg.prompt_params) THEN "raise"
    ELSE "prompt"

\* what leaves _decide_with_llm: result is <<>> for None or
\* <<SupervisorDecision>>; raised tells an exception left it
LlmResult(result, calls) == [result |-> result, raised |-> FALSE, calls |-> calls]

\* no except clause: the exception leaves _decide_with_llm
OnLlmException_Propagates(calls) == [result |-> <<>>, raised |-> TRUE, calls |-> calls]

\* except Exception: await ainvoke once more, which fails again
OnLlmException_Retries(calls) == LlmResult(<<>>, [calls EXCEPT !.llm = @ + 1])

\* except Exception: log the error and return None
OnLlmException(calls) == LlmResult(<<>>, calls)

\* valid_nodes = set(get_all_nodes()): every workflow's handlers
ValidNodes_AllNodes(slf, reg) ==
    {reg.contracts[n].name : n \in 1..Len(reg.contracts)} \cup {"done"}

\* valid_nodes = set(get_supervisor_nodes(self.name)); valid_nodes.add("done")
ValidNodes(slf, reg) ==
    {get_supervisor_nodes(reg.contracts, slf.name)[n] :
        n \in 1..Len(get_supervisor_nodes(reg.contracts, slf.name))} \cup {"done"}

\* SupervisorDecision(next_node, reasoning)
SupervisorDecision(next_node, reasoning) ==
    [next_node |-> next_node, reasoning |-> reasoning]

\* the invalid id handed on as it came
SubstituteFor_KeepsAnswer(rule_candidates, next_node) == next_node

\* next_node=rule_candidates[0], the node that replaces an invalid answer
SubstituteFor(rule_candidates, next_node) == rule_candidates[1]

\* context_slices = {"request", "response", "_internal"}  # default
DefaultContextSlices == {"request", "response", "_internal"}

\* the dict a context builder returns: slices is <<>> when the dict has no
\* "slices" key, else <<the set under it>>
HookResult(slices) == [slices |-> slices]

\* result.get("slices", default)
GetSlices(result, default) == IF result.slices = <<>> THEN default ELSE result.slices[1]

\* GenericSupervisor._collect_context_slices, result being what the context
\* builder returns when called
_collect_context_slices(slf, result) ==
    IF slf.context_builder THEN GetSlices(result, DefaultContextSlices)
    ELSE DefaultContextSlices

\* context slices that ignore what the context builder returned
ContextSlices_AlwaysDefault(slf, result) == DefaultContextSlices

\* the context_slices of _decide_with_llm
ContextSlices(slf, result) ==
    IF slf.context_builder THEN GetSlices(result, DefaultContextSlices)
    ELSE DefaultContextSlices

\* the arguments of self.context_builder(state, rule_candidates), <<>> when
\* there is no builder to call
HookArgs(slf, st, rule_candidates) ==
    IF slf.context_builder
    THEN <<[state |-> st, candidates |-> rule_candidates]>>
    ELSE <<>>

\* sorted() over the slice names in use
SortedSliceNames == <<"_internal", "interview", "profile", "request", "response">>

\* state_parts: for slice_name in sorted(context_slices): if slice_name in state
StateParts(context_slices, st) ==
    SelectSeq(SortedSliceNames, LAMBDA slice_name :
        slice_name \in context_slices /\ HasKey(st, slice_name))

\* what _decide_with_llm builds before it asks the registry for the prompt:
\* the call of the context builder and the slices serialised into the context
PromptContext(slf, st, rule_candidates, result) ==
    [hook_args |-> HookArgs(slf, st, rule_candidates),
     state_parts |-> StateParts(ContextSlices(slf, result), st)]

\* GenericSupervisor._decide_with_llm; arb is what the context builder and
\* the LLM do in this invocation
_decide_with_llm(slf, reg, matches, rule_candidates, arb) ==
    LET h == IF slf.context_builder THEN 1 ELSE 0
    IN IF slf.context_builder /\ arb.hook = "raises"
       THEN OnLlmException(Calls(1, h, 0))
       ELSE IF build_llm_prompt(reg, slf.name, {"supervisor", "state", "context"}) = "raise"
       THEN OnLlmException(Calls(1, h, 0))
       ELSE IF arb.llm = "raises"
       THEN OnLlmException(Calls(1, h, 1))
       ELSE IF arb.next_node \notin ValidNodes(slf, reg)
       THEN IF rule_candidates # <<>>
            THEN LlmResult(<<SupervisorDecision(
                     SubstituteFor(rule_candidates, arb.next_node),
                     "LLM returned invalid '" \o arb.next_node
                        \o "', using rule candidate")>>, Calls(1, h, 1))
            ELSE LlmResult(<<>>, Calls(1, h, 1))
       ELSE LlmResult(<<SupervisorDecision(arb.next_node, arb.reasoning)>>, Calls(1, h, 1))

\* matches[-1][1]: the lowest-ranked match
TopMatch_Last(matches) == matches[Len(matches)][2]

\* matches[0][1], the node phase 3 selects when a rule matched
TopMatch(matches) == matches[1][2]

\* child_decision left None whatever the previous decision is
ChildDecision_Ignored(st) == <<>>

\* child_decision: the previous decision if it is truthy and not "done",
\* <<>> for None
ChildDecision(st) ==
    LET internal == DictGet(st, "_internal", PyDict(EmptyMap))
        previous_decision == DictGet(internal, "decision", PyNone)
    IN IF Truthy(previous_decision) /\ ~PyEq(previous_decision, PyStr("done"))
       THEN <<previous_decision.s>> ELSE <<>>

\* the last return falling through to the previous handler's slot
FallbackDone_Empty == ""

\* selected_node="done" of the last return of decide_with_trace
FallbackDone == "done"

\* the returns of phases 2 and 3, llm_result being what _decide_with_llm
\* returned (None when no LLM is configured)
Resolve(matches, matched_rules, child_decision, llm_result) ==
    IF llm_result.raised
    THEN Raised(llm_result.calls)
    ELSE IF llm_result.result # <<>>
    THEN RoutingDecision(llm_result.result[1].next_node, "llm_decision",
                         matched_rules, TRUE, llm_result.result[1].reasoning,
                         llm_result.calls)
    ELSE IF matches # <<>>
    THEN RoutingDecision(TopMatch(matches), "rule_match", matched_rules, FALSE, "",
                         llm_result.calls)
    ELSE IF child_decision # <<>>
    THEN RoutingDecision(child_decision[1], "fallback", <<>>, FALSE, "",
                         llm_result.calls)
    ELSE RoutingDecision(FallbackDone, "fallback", <<>>, FALSE, "", llm_result.calls)

\* if self.llm
LlmConfigured(slf) == slf.llm

\* phases 1 to 3 once evaluate_triggers has returned matches
AfterRules(slf, reg, st, arb, matches) ==
    Resolve(matches, _build_matched_rules(reg, matches), ChildDecision(st),
            IF LlmConfigured(slf)
            THEN _decide_with_llm(slf, reg, matches, _select_top_matches(matches), arb)
            ELSE LlmResult(<<>>, Calls(1, 0, 0)))

\* phases 1 to 3 of decide_with_trace (from the call of evaluate_triggers)
DecidePhases(slf, reg, st, arb) ==
    AfterRules(slf, reg, st, arb, evaluate_triggers(reg, slf.name, st))

\* phase 0.5 reading lq.get("node")
ReturnNodeId_WrongKey(st) ==
    LET req == DictGet(st, "request", PyDict(EmptyMap))
        action == IF IsDict(req) THEN DictGet(req, "action", PyNone) ELSE PyNone
        interview == DictGet(st, "interview", PyDict(EmptyMap))
        lq == IF IsDict(interview) THEN DictGet(interview, "last_question", PyNone)
              ELSE PyNone
    IN IF ~PyEq(action, PyStr("answer")) THEN PyNone
       ELSE IF ~Truthy(lq) THEN PyNone
       ELSE IF IsDict(lq) THEN DictGet(lq, "node", PyNone)
       ELSE PyNone

\* the node_id phase 0.5 of decide_with_trace reads, PyNone when there is none
ReturnNodeId(st) ==
    LET req == DictGet(st, "request", PyDict(EmptyMap))
        action == IF IsDict(req) THEN DictGet(req, "action", PyNone) ELSE PyNone
        interview == DictGet(st, "interview", PyDict(EmptyMap))
        lq == IF IsDict(interview) THEN DictGet(interview, "last_question", PyNone)
              ELSE PyNone
    IN IF ~PyEq(action, PyStr("answer")) THEN PyNone
       ELSE IF ~Truthy(lq) THEN PyNone
       ELSE IF IsDict(lq) THEN DictGet(lq, "node_id", PyNone)
       ELSE PyNone

\* phases 0 and 0.5 of decide_with_trace: immediate is what
\* _check_immediate_rules returned, node_id what phase 0.5 read, later the
\* decision of phases 1 to 3
EarlyPhases(st, immediate, node_id, later) ==
    IF ~IsDict(DictGet(st, "_internal", PyDict(EmptyMap)))
    THEN Raised(Calls(0, 0, 0))
    ELSE IF immediate = "raise"
    THEN Raised(Calls(0, 0, 0))
    ELSE IF immediate # ""
    THEN RoutingDecision(immediate, "terminal_state", <<>>, FALSE, "", Calls(0, 0, 0))
    ELSE IF Truthy(node_id)
    THEN RoutingDecision(node_id.s, "explicit_routing", <<>>, FALSE, "", Calls(0, 0, 0))
    ELSE later

\* GenericSupervisor.decide_with_trace
decide_with_trace(slf, reg, st, arb) ==
    EarlyPhases(st, _check_immediate_rules(slf, st), ReturnNodeId(st),
                DecidePhases(slf, reg, st, arb))

\* RoutingDecision.to_supervisor_decision
to_supervisor_decision(routing_decision) ==
    SupervisorDecision(routing_decision.selected_node,
                       IF routing_decision.llm_used
                       THEN routing_decision.llm_reasoning
                       ELSE routing_decision.decision_type)

\* return routing_decision.to_supervisor_decision(), or the exception that
\* left decide_with_trace
DecideReturn(routing_decision) ==
    [raised |-> routing_decision.raised,
     decision |-> to_supervisor_decision(routing_decision),
     calls |-> routing_decision.calls]

\* GenericSupervisor.decide
decide(slf, reg, st, arb) == DecideReturn(decide_with_trace(slf, reg, st, arb))

\* what run() returns: the update {"_internal": {...}}, or an exception
RunResult(raised, tripped, next_node, internal, calls) ==
    [raised |-> raised, guard_tripped |-> tripped, next_node |-> next_node,
     update |-> PyDict([sl \in {"_internal"} |-> internal]), calls |-> calls]

\* internal.get(iteration_key, 1): the missing counter read as 1
ReadIteration_DefaultOne(internal, iteration_key_) ==
    DictGet(internal, iteration_key_, PyInt(1))

\* internal.get(iteration_key, 0)
ReadIteration(internal, iteration_key_) == DictGet(internal, iteration_key_, PyInt(0))

\* current_iteration > self.max_iterations: the guard one iteration late
GuardTripped_Strict(slf, current_iteration) == current_iteration > slf.max_iterations

\* current_iteration >= self.max_iterations
GuardTripped(slf, current_iteration) == current_iteration >= slf.max_iterations

\* the counter written back without the increment
NextIteration_Stuck(current_iteration) == current_iteration

\* current_iteration + 1
NextIteration(current_iteration) == current_iteration + 1

\* a guard-tripped run that still advances the counter
HeldIteration_Advances(slf, current_iteration) == current_iteration + 1

\* iteration_key: current_iteration, the counter a guard-tripped run returns
HeldIteration(slf, current_iteration) == current_iteration

\* the returned internal slice built without the input's keys
Carry_Dropped(internal) == PyDict(EmptyMap)

\* **internal, the keys of the input internal slice copied into the update
Carry(internal) == internal

\* the body of run: internal is state.get("_internal", {}) and decision what
\* `await self.decide(state, config)` gives when it is reached
RunBody(slf, internal, decision) ==
    LET current_iteration ==
            IF IsDict(internal)
            THEN ReadIteration(internal, iteration_key(slf.name))
            ELSE PyNone
    IN IF ~IsDict(internal) \/ current_iteration.k \notin {"int", "bool"}
       THEN RunResult(TRUE, FALSE, "", PyNone, Calls(0, 0, 0))
       ELSE IF GuardTripped(slf, current_iteration.i)
       THEN RunResult(FALSE, TRUE, "done",
                DictPut(DictPut(Carry(internal), "decision", PyStr("done")),
                        iteration_key(slf.name),
                        [current_iteration EXCEPT !.i = HeldIteration(slf, @)]),
                Calls(0, 0, 0))
       ELSE IF decision.raised
       THEN RunResult(TRUE, FALSE, "", PyNone, decision.calls)
       ELSE RunResult(FALSE, FALSE, decision.decision.next_node,
                DictPut(DictPut(Carry(internal), "decision",
                                PyStr(decision.decision.next_node)),
                        iteration_key(slf.name),
                        PyInt(NextIteration(current_iteration.i))),
                decision.calls)

\* GenericSupervisor.run
run(slf, reg, st, arb) ==
    RunBody(slf, DictGet(st, "_internal", PyDict(EmptyMap)), decide(slf, reg, st, arb))

(***************************************************************************)
(* node.py                                                                 *)
(***************************************************************************)
\* ModularNode._extract_inputs: the slices of CONTRACT.reads, {} for a slice
\* the state lacks
_extract_inputs(contract, st) ==
    PyDict([slice_name \in {contract.reads[n] : n \in 1..Len(contract.reads)} |->
              DictGet(st, slice_name, PyDict(EmptyMap))])

\* NodeOutputs(**slices): a slice not given, or given as None, is PyNone
NodeOutputs(slices) == PyDict(slices)

\* NodeOutputs.to_state_updates: the slices that are not None
to_state_updates(outputs) ==
    PyDict([slice_name \in {sl \in DOMAIN outputs.m : outputs.m[sl] # PyNone} |->
              outputs.m[slice_name]])

\* ModularNode._convert_outputs: the slices whose data is a dict
_convert_outputs(contract, outputs) ==
    PyDict([slice_name \in {sl \in DOMAIN to_state_updates(outputs).m :
                              IsDict(to_state_updates(outputs).m[sl])} |->
              to_state_updates(outputs).m[slice_name]])

\* InteractiveNode.create_completion_output
create_completion_output ==
    NodeOutputs([sl \in {"_internal"} |-> PyDict([ky \in {"decision"} |-> PyStr("done")])])

\* what execute gives: the methods it called, in order, and its outputs, or
\* the exception of a method of the subclass
Executed(raised, trace, outputs) == [raised |-> raised, trace |-> trace, outputs |-> outputs]

\* InteractiveNode.execute; node is what the methods of the subclass do
execute(node, inputs) ==
    IF node.process_answer = "raises"
    THEN Executed(TRUE, <<"prepare_context", "process_answer">>, PyNone)
    ELSE IF node.check_completion
    THEN Executed(FALSE,
                  <<"prepare_context", "process_answer", "check_completion",
                    "create_completion_output">>,
                  create_completion_output)
    ELSE Executed(FALSE,
                  <<"prepare_context", "process_answer", "check_completion",
                    "generate_question">>,
                  node.generate_question)

\* what __call__ gives once execute has returned or raised
Called(contract, executed) ==
    [raised |-> executed.raised,
     trace |-> executed.trace,
     update |-> IF executed.raised THEN PyNone
                ELSE _convert_outputs(contract, executed.outputs)]

\* ModularNode.__call__
__call__(contract, node, st) == Called(contract, execute(node, _extract_inputs(contract, st)))

(***************************************************************************)
(* The registered contracts and the session the turn loop starts from.     *)
(***************************************************************************)
WhenGo == <<(<<(<<"request", "action">>), PyStr("go")>>)>>

WhenGoFlat == <<(<<(<<"action">>), PyStr("go")>>)>>

ContractA == NodeContract("A", "main", <<TriggerCondition(100, WhenGo, <<>>)>>)

WhenAnswer == <<(<<(<<"request", "action">>), PyStr("answer")>>)>>

ContractB ==
    NodeContract("B", "main", <<TriggerCondition(10, WhenGoFlat, <<>>),
                                TriggerCondition(50, WhenAnswer, <<>>)>>)

ContractC == NodeContract("C", "main", <<>>)

ContractX == NodeContract("X", "other", <<TriggerCondition(100, <<>>, <<>>)>>)

ContractSets ==
    {<<ContractA, ContractB, ContractX>>,
     <<ContractB, ContractX, ContractC, ContractA>>}

\* NodeRegistry.__init__ followed by the startup registrations of the node
\* classes carrying the contracts (a class is held by its name); slice_order is
\* the order in which list(self._valid_slices) yields the slices, prompt_params
\* are the parameters the registry's build_llm_prompt takes
NodeRegistry(contracts, prompt_params) ==
    [nodes |-> [n \in 1..Len(contracts) |->
                  <<contracts[n].name, contracts[n].name \o "Node">>],
     contracts |-> contracts,
     valid_slices |-> {"request", "response", "_internal"},
     slice_order |-> <<"request", "response", "_internal">>,
     prompt_params |-> prompt_params]

\* build_llm_prompt(self, supervisor, state) of registry.py, and the
\* build_llm_prompt(supervisor, state, context=None) of an injected registry
PromptParams == {{"supervisor", "state"}, {"supervisor", "state", "context"}}

\* how the supervisor is set up: without an LLM; with one and either
\* registry; with one, a context builder and the injected registry
Setups ==
    {[llm |-> FALSE, context_builder |-> FALSE, prompt_params |-> {"supervisor", "state"}],
     [llm |-> TRUE, context_builder |-> TRUE,
      prompt_params |-> {"supervisor", "state", "context"}]}
    \cup [llm : {TRUE}, context_builder : {FALSE}, prompt_params : PromptParams]

ResponseTypes == {"final", "info"}

NodeIds == {"A", "zz"}

\* the actions a request carries; no rule is written for "chat"
Actions == {"go", "answer", "chat"}

\* the handler ids the Arbitrator answers with: a handler of this workflow,
\* a handler registered for another workflow only, the terminal sentinel, an
\* id no handler has
LlmAnswers == {"A", "X", "done", "bogus"}

\* what the context builder and the Arbitrator do in one invocation: the
\* builder raises (the Arbitrator is not reached), the Arbitrator raises, or
\* it returns an answer
ArbBehaviours ==
    [hook : {"slices"}, llm : {"returns"}, next_node : LlmAnswers, reasoning : {"why"}]
    \cup {[hook |-> "slices", llm |-> "raises", next_node |-> "", reasoning |-> ""],
          [hook |-> "raises", llm |-> "unreached", next_node |-> "", reasoning |-> ""]}

\* no Arbitrator is configured: nothing is there to behave
NoArbitrator == [hook |-> "slices", llm |-> "returns", next_node |-> "", reasoning |-> ""]

\* the behaviours this supervisor's collaborators can show
ArbFor(slf) ==
    IF ~slf.llm THEN {NoArbitrator}
    ELSE {arb \in ArbBehaviours : slf.context_builder \/ arb.hook = "slices"}

\* the record of one supervisor call: the state and the behaviours it was
\* given and what it returned
Call(op, pre, arb, raised, routing, next_node, update, guard_tripped, calls) ==
    [op |-> op, pre |-> pre, arb |-> arb, raised |-> raised, routing |-> routing,
     next_node |-> next_node, update |-> update, guard_tripped |-> guard_tripped,
     calls |-> calls]

NoRouting == Raised(Calls(0, 0, 0))

NoCall == Call("none", PyNone, NoArbitrator, FALSE, NoRouting, "", PyNone, FALSE,
               Calls(0, 0, 0))

\* the record of one call of a method on its own: its argument, the registry
\* it was called on, whether it raised and what it returned
Unit(op, arg, pre, raised, ret) ==
    [op |-> op, arg |-> arg, pre |-> pre, raised |-> raised, ret |-> ret]

NoUnit == Unit("none", <<>>, <<>>, FALSE, <<>>)

\* the states a session starts from: counter start beside the counter of
\* another workflow's supervisor, or no internal slice at all (a session is
\* new, or is resumed with a counter beyond the limit)
InitialStates(counter) ==
    {PyDict([sl \in {"_internal"} |->
        PyDict([ky \in {iteration_key("main"), iteration_key("other")} |->
                  IF ky = iteration_key("main") THEN PyInt(counter) ELSE PyInt(7)])])}
    \cup (IF counter = 0 THEN {PyDict(EmptyMap)} ELSE {})

Init ==
    /\ \E contracts \in ContractSets, su \in Setups, mi \in 1..MaxIterArg :
          /\ registry = NodeRegistry(contracts, su.prompt_params)
          /\ self = __init__("main", su.llm, <<mi>>, <<{"final"}>>, su.context_builder)
    /\ start \in {0, self.max_iterations + 1}
    /\ state \in InitialStates(start)
    /\ last = NoCall
    /\ runs = 0
    /\ unit = NoUnit

\* the caller puts the user's next request into the request slice
UserRequest(action) ==
    /\ state' = DictPut(state, "request", PyDict([ky \in {"action"} |-> PyStr(action)]))
    /\ last' = NoCall
    /\ UNCHANGED <<registry, self, start, runs, unit>>

\* a handler answers: its response slice replaces the state's
HandlerRespond(rtype) ==
    /\ state' = DictPut(state, "response",
                        PyDict([ky \in {"response_type"} |-> PyStr(rtype)]))
    /\ last' = NoCall
    /\ UNCHANGED <<registry, self, start, runs, unit>>

\* a handler asks a question and records itself as its origin
HandlerAsk(node_id) ==
    /\ state' = DictPut(state, "interview",
                    PyDict([ky \in {"last_question"} |->
                        PyDict([kz \in {"node_id"} |-> PyStr(node_id)])]))
    /\ last' = NoCall
    /\ UNCHANGED <<registry, self, start, runs, unit>>

\* InteractiveNode.create_completion_output merged by the caller:
\* state["_internal"].update({"decision": "done"})
HandlerComplete ==
    /\ HasKey(state, "_internal") /\ IsDict(state.m["_internal"])
    /\ state' = DictPut(state, "_internal",
                        DictPut(state.m["_internal"], "decision", PyStr("done")))
    /\ last' = NoCall
    /\ UNCHANGED <<registry, self, start, runs, unit>>

\* the record of a run() call
RunCall(pre, arb, res) ==
    Call("run", pre, arb, res.raised, NoRouting, res.next_node, res.update,
         res.guard_tripped, res.calls)

\* the record of a decide() call
DecideCall(pre, arb, res) ==
    Call("decide", pre, arb, res.raised, NoRouting, res.decision.next_node,
         PyNone, FALSE, res.calls)

\* the record of a decide_with_trace() call
TraceCall(pre, arb, res) ==
    Call("decide_with_trace", pre, arb, res.raised, res, res.selected_node,
         PyNone, FALSE, res.calls)

\* the caller awaits supervisor.run(state) and merges the returned update:
\* the returned internal slice replaces the state's
Run(arb) ==
    /\ last' = RunCall(state, arb, run(self, registry, state, arb))
    /\ state' = IF last'.raised THEN state
                ELSE DictPut(state, "_internal", last'.update.m["_internal"])
    /\ runs' = IF last'.raised \/ last'.guard_tripped THEN runs ELSE runs + 1
    /\ UNCHANGED <<registry, self, start, unit>>

\* a decide that records its decision in the caller's internal slice
StateAfterDecide_Records(st, next_node) ==
    DictPut(st, "_internal",
            DictPut(DictGet(st, "_internal", PyDict(EmptyMap)), "decision",
                    PyStr(next_node)))

\* the caller's state once decide / decide_with_trace has returned: neither
\* writes to the state it is given (config is rebuilt, state only read)
StateAfterDecide(st, next_node) == st

\* the caller awaits supervisor.decide(state)
Decide(arb) ==
    /\ last' = DecideCall(state, arb, decide(self, registry, state, arb))
    /\ state' = StateAfterDecide(state, last'.next_node)
    /\ UNCHANGED <<registry, self, start, runs, unit>>

\* the caller awaits supervisor.decide_with_trace(state)
DecideWithTrace(arb) ==
    /\ last' = TraceCall(state, arb, decide_with_trace(self, registry, state, arb))
    /\ state' = StateAfterDecide(state, last'.next_node)
    /\ UNCHANGED <<registry, self, start, runs, unit>>

Next ==
    \/ \E action \in Actions : UserRequest(action)
    \/ \E rtype \in ResponseTypes : HandlerRespond(rtype)
    \/ \E node_id \in NodeIds : HandlerAsk(node_id)
    \/ HandlerComplete
    \/ \E arb \in ArbFor(self) : Run(arb)
    \/ \E arb \in ArbFor(self) : Decide(arb)
    \/ \E arb \in ArbFor(self) : DecideWithTrace(arb)

Spec == Init /\ [][Next]_vars

(***************************************************************************)
(* The decision API called on any state the data model allows: a slice is  *)
(* absent, null, a value that is no map, or a map.                         *)
(***************************************************************************)
\* the values a slice of such a state holds
SliceValues(sl) ==
    CASE sl = "request" ->
           {PyNone, PyStr("text"), PyDict([ky \in {"action"} |-> PyStr("answer")])}
      [] sl = "response" ->
           {PyNone, PyStr("text"),
            PyDict([ky \in {"response_type"} |-> PyStr("info")]),
            PyDict([ky \in {"response_type"} |-> PyDict(EmptyMap)])}
      [] sl = "_internal" ->
           {PyNone,
            PyDict([ky \in {"decision"} |-> PyStr("A")]),
            PyDict([ky \in {iteration_key("main")} |-> PyStr("1")])}
      [] sl = "interview" ->
           {PyNone, PyDict([ky \in {"last_question"} |-> PyStr("text")])}

Slices == {"request", "response", "_internal", "interview"}

AnyStates ==
    {PyDict(f) : f \in {g \in UNION {[present -> UNION {SliceValues(sl) : sl \in Slices}] :
                                        present \in SUBSET Slices} :
                          \A sl \in DOMAIN g : g[sl] \in SliceValues(sl)}}

InitAny ==
    /\ \E contracts \in ContractSets, su \in Setups :
          /\ registry = NodeRegistry(contracts, su.prompt_params)
          /\ self = __init__("main", su.llm, <<MaxIterArg>>, <<{"final"}>>,
                              su.context_builder)
    /\ start = 0
    /\ state \in AnyStates
    /\ last = NoCall
    /\ runs = 0
    /\ unit = NoUnit

NextAny ==
    \/ \E arb \in ArbFor(self) : Run(arb)
    \/ \E arb \in ArbFor(self) : Decide(arb)
    \/ \E arb \in ArbFor(self) : DecideWithTrace(arb)

SpecAny == InitAny /\ [][NextAny]_vars

(***************************************************************************)
(* _select_top_matches on its own, given what evaluate_triggers can        *)
(* return: (priority, name) pairs by descending priority, names distinct.  *)
(***************************************************************************)
MatchLists ==
    {[n \in DOMAIN prios |-> <<prios[n], "n" \o ToString(n)>>] :
        prios \in {p \in UNION {[1..len -> 0..MaxPriority] : len \in 0..MaxMatches} :
                      \A n \in 1..(Len(p) - 1) : p[n] >= p[n + 1]}}

\* a supervisor built with every optional argument omitted, over the
\* repository's registry
InitQuiet ==
    /\ registry = NodeRegistry(<<>>, {"supervisor", "state"})
    /\ self = __init__("main", FALSE, <<>>, <<>>, FALSE)
    /\ start = 0
    /\ state = PyDict(EmptyMap)
    /\ last = NoCall
    /\ runs = 0
    /\ unit = NoUnit

\* rule_candidates = self._select_top_matches(matches)
SelectTopMatches(matches) ==
    /\ unit' = Unit("_select_top_matches", matches, <<>>, FALSE,
                    _select_top_matches(matches))
    /\ UNCHANGED <<registry, self, state, last, start, runs>>

NextCandidates == \E matches \in MatchLists : SelectTopMatches(matches)

SpecCandidates == InitQuiet /\ [][NextCandidates]_vars

(***************************************************************************)
(* Registration: node classes registered one after another.                *)
(***************************************************************************)
\* a contract that reads and writes unknown slices, writes to 'request', names
\* no supervisor and has no trigger condition
ContractD == ContractWith(NodeContract("D", "", <<>>), <<"bogus">>, <<"request", "nowhere">>)

\* the classes offered for registration: two classes for each contract name
\* (one contract per workflow), a class without CONTRACT, and a class whose
\* contract _validate_contract warns about
NodeClasses ==
    {NodeClass(name \o "Node_" \o supervisor, <<NodeContract(name, supervisor, <<>>)>>) :
        name \in {"A", "B", "C"}, supervisor \in {"main", "other"}}
    \cup {NodeClass("Bare", <<>>), NodeClass("DNode", <<ContractD>>)}

\* registry.register(node_class), the ValueError caught by the caller
Register(node_class) ==
    /\ registry' = register(registry, node_class).registry
    /\ unit' = Unit("register", node_class, registry,
                    register(registry, node_class).raised, <<>>)
    /\ UNCHANGED <<self, state, last, start, runs>>

NextRegistration == \E node_class \in NodeClasses : Register(node_class)

SpecRegistration == InitQuiet /\ [][NextRegistration]_vars

(***************************************************************************)
(* Rule evaluation: evaluate_triggers, and the decision of a supervisor    *)
(* without LLM, over registries whose handlers tie, list their conditions  *)
(* in either order and use flat keys, in a process whose set order is any. *)
(***************************************************************************)
WhenNotFinal == <<(<<(<<"response", "response_type">>), PyStr("final")>>)>>

\* the condition lists a handler's contract carries
ConditionLists ==
    {<<>>,
     <<TriggerCondition(10, WhenGo, <<>>), TriggerCondition(100, WhenGo, <<>>)>>,
     <<TriggerCondition(100, WhenGo, <<>>), TriggerCondition(10, WhenGoFlat, <<>>)>>,
     <<TriggerCondition(50, WhenGoFlat, <<>>)>>,
     <<TriggerCondition(10, <<>>, <<>>)>>,
     <<TriggerCondition(50, <<>>, <<>>), TriggerCondition(100, WhenGo, <<>>)>>,
     <<TriggerCondition(50, <<>>, WhenNotFinal), TriggerCondition(100, WhenAnswer, <<>>)>>,
     <<TriggerCondition(50, WhenAnswer, <<>>), TriggerCondition(50, WhenGo, <<>>)>>}

\* list(self._valid_slices): the iteration order of a set of str changes
\* with the hash seed of the process
SliceOrders ==
    {order \in [1..3 -> {"request", "response", "_internal"}] :
        \A n, o \in 1..3 : n # o => order[n] # order[o]}

\* the states rules are evaluated on; the flat key action occurs in no slice,
\* in one, or in two with different values
TriggerStates ==
    {PyDict(EmptyMap),
     PyDict([sl \in {"request"} |-> PyDict([ky \in {"action"} |-> PyStr("go")])]),
     PyDict([sl \in {"request", "response"} |->
               PyDict([ky \in {"action"} |->
                         IF sl = "request" THEN PyStr("go") ELSE PyStr("stop")])]),
     PyDict([sl \in {"request", "response"} |->
               IF sl = "request" THEN PyNone
               ELSE PyDict([ky \in {"action", "response_type"} |->
                              IF ky = "action" THEN PyStr("go") ELSE PyStr("final")])]),
     PyDict([sl \in {"request", "_internal"} |->
               IF sl = "request" THEN PyDict([ky \in {"action"} |-> PyStr("answer")])
               ELSE PyDict([ky \in {"action", "decision"} |-> PyStr("go")])])}

InitTriggers ==
    /\ \E a, b, c \in ConditionLists, order \in SliceOrders :
          registry = [NodeRegistry(<<NodeContract("A", "main", a), ContractX,
                                     NodeContract("B", "main", b),
                                     NodeContract("C", "main", c)>>,
                                   {"supervisor", "state"})
                      EXCEPT !.slice_order = order]
    /\ self = __init__("main", FALSE, <<>>, <<{"final"}>>, FALSE)
    /\ start = 0
    /\ state \in TriggerStates
    /\ last = NoCall
    /\ runs = 0
    /\ unit = NoUnit

\* matches = self.registry.evaluate_triggers(self.name, state)
EvaluateTriggers ==
    /\ unit' = Unit("evaluate_triggers", state, registry, FALSE,
                    evaluate_triggers(registry, self.name, state))
    /\ UNCHANGED <<registry, self, state, last, start, runs>>

NextTriggers ==
    \/ EvaluateTriggers
    \/ \E arb \in ArbFor(self) : DecideWithTrace(arb)

SpecTriggers == InitTriggers /\ [][NextTriggers]_vars

(***************************************************************************)
(* _evaluate_condition on its own: predicates on request.flag and          *)
(* request.other, resolved against states that hold, or lack, the keys.    *)
(***************************************************************************)
\* the values a state holds at request.flag and a predicate expects there
FlagValues ==
    {PyNone, PyBool(TRUE), PyBool(FALSE), PyInt(0), PyInt(1), PyStr(""), PyStr("go"),
     PyDict(EmptyMap)}

\* the values a predicate expects at request.other
OtherValues == {PyStr("go"), PyBool(TRUE)}

\* when / when_not dicts of one or two keys
PredicateLists ==
    {<<>>}
    \cup {<<(<<(<<"request", "flag">>), e>>)>> : e \in FlagValues}
    \cup {<<(<<(<<"request", "flag">>), e>>), (<<(<<"request", "other">>), f>>)>> :
            e \in FlagValues, f \in OtherValues}

NegativeLists == {<<>>} \cup {<<(<<(<<"request", "other">>), f>>)>> : f \in OtherValues}

\* no request slice, or a request slice with any of the two keys
PredicateStates ==
    {PyDict(EmptyMap)}
    \cup {PyDict([sl \in {"request"} |-> PyDict(f)]) :
            f \in UNION {[present -> FlagValues] : present \in SUBSET {"flag", "other"}}}

\* a registry holding one handler with one condition, and a state
InitPredicates ==
    /\ registry \in {NodeRegistry(<<NodeContract("A", "main",
                                      <<TriggerCondition(1, when, when_not)>>)>>,
                                   {"supervisor", "state"}) :
                        when \in PredicateLists, when_not \in NegativeLists}
    /\ self = __init__("main", FALSE, <<>>, <<>>, FALSE)
    /\ start = 0
    /\ state \in PredicateStates
    /\ last = NoCall
    /\ runs = 0
    /\ unit = NoUnit

\* self._evaluate_condition(condition, state)
EvaluateCondition(condition) ==
    /\ unit' = Unit("_evaluate_condition", [condition |-> condition, state |-> state],
                    registry, FALSE, _evaluate_condition(registry, condition, state))
    /\ UNCHANGED <<registry, self, state, last, start, runs>>

NextPredicates ==
    \E n \in 1..Len(registry.contracts) :
        \E c \in 1..Len(registry.contracts[n].trigger_conditions) :
            EvaluateCondition(registry.contracts[n].trigger_conditions[c])

SpecPredicates == InitPredicates /\ [][NextPredicates]_vars

(***************************************************************************)
(* The context an Arbitrator is given: a supervisor with an LLM, with or   *)
(* without a context builder, over a registry whose build_llm_prompt takes *)
(* the context, on states holding any of the slices.                       *)
(***************************************************************************)
\* what a context builder returns: no "slices" key, or a set of slices
HookResults ==
    {HookResult(<<>>), HookResult(<<{}>>), HookResult(<<{"interview"}>>),
     HookResult(<<{"request", "interview", "profile"}>>)}

\* states holding any of the slices, the request asking for "go"
ContextStates ==
    {PyDict([sl \in present |->
               IF sl = "request" THEN PyDict([ky \in {"action"} |-> PyStr("go")])
               ELSE PyDict(EmptyMap)]) :
        present \in SUBSET {"request", "response", "_internal", "interview", "profile"}}

InitContext ==
    /\ \E contracts \in ContractSets :
          registry = NodeRegistry(contracts, {"supervisor", "state", "context"})
    /\ \E context_builder \in BOOLEAN :
          self = __init__("main", TRUE, <<>>, <<{"final"}>>, context_builder)
    /\ start = 0
    /\ state \in ContextStates
    /\ last = NoCall
    /\ runs = 0
    /\ unit = NoUnit

\* slices = supervisor._collect_context_slices(state, rule_candidates)
CollectContextSlices(result, rule_candidates) ==
    /\ unit' = Unit("_collect_context_slices",
                    [result |-> result, rule_candidates |-> rule_candidates], registry,
                    FALSE,
                    [hook_args |-> HookArgs(self, state, rule_candidates),
                     slices |-> _collect_context_slices(self, result)])
    /\ UNCHANGED <<registry, self, state, last, start, runs>>

\* the caller awaits supervisor.decide_with_trace(state); unit keeps what
\* _decide_with_llm built on the way: the context builder's call and, when
\* the Arbitrator was invoked, the context of its prompt
DecideWithContext(arb, result) ==
    /\ last' = TraceCall(state, arb, decide_with_trace(self, registry, state, arb))
    /\ state' = StateAfterDecide(state, last'.next_node)
    /\ unit' = IF last'.calls.llm = 1
               THEN Unit("ainvoke", [result |-> result], registry, FALSE,
                         PromptContext(self, state,
                            _select_top_matches(evaluate_triggers(registry, self.name, state)),
                            result))
               ELSE NoUnit
    /\ UNCHANGED <<registry, self, start, runs>>

NextContext ==
    \/ \E result \in HookResults, rule_candidates \in {<<>>, <<"A", "B">>} :
          CollectContextSlices(result, rule_candidates)
    \/ \E arb \in ArbFor(self), result \in HookResults : DecideWithContext(arb, result)

SpecContext == InitContext /\ [][NextContext]_vars

(***************************************************************************)
(* _get_state_value on dotted paths, over states whose request slice is    *)
(* missing, no map, or a map nested up to two levels.                      *)
(***************************************************************************)
\* what request.a.b holds
LeafValues == {PyNone, PyStr("v"), PyInt(0), PyBool(FALSE), PyList, PyDict(EmptyMap)}

\* what request.a holds: null, a scalar, a list, or a map with or without b
InnerValues ==
    {PyNone, PyInt(1), PyList}
    \cup {PyDict(g) : g \in UNION {[present -> LeafValues] : present \in SUBSET {"b"}}}

\* what the request slice holds
RequestValues ==
    {PyNone, PyStr("x"), PyList}
    \cup {PyDict(f) : f \in UNION {[present -> InnerValues] : present \in SUBSET {"a"}}}

PathStates ==
    {PyDict(EmptyMap)} \cup {PyDict([sl \in {"request"} |-> v]) : v \in RequestValues}

\* the keys "request.a", "request.b", "request.a.b", "request.a.b.c" and
\* "response.a", split at the dots
DottedPaths ==
    {<<"request", "a">>, <<"request", "b">>, <<"request", "a", "b">>,
     <<"request", "a", "b", "c">>, <<"response", "a">>}

\* a registry holding one handler whose condition reads the path, and a state
InitPaths ==
    /\ registry \in {NodeRegistry(<<NodeContract("A", "main",
                          <<TriggerCondition(1, <<(<<key, PyStr("v")>>)>>, <<>>)>>)>>,
                                   {"supervisor", "state"}) : key \in DottedPaths}
    /\ self = __init__("main", FALSE, <<>>, <<>>, FALSE)
    /\ start = 0
    /\ state \in PathStates
    /\ last = NoCall
    /\ runs = 0
    /\ unit = NoUnit

\* actual = self._get_state_value(state, key)
GetStateValue(key) ==
    /\ unit' = Unit("_get_state_value", [state |-> state, key |-> key], registry, FALSE,
                    _get_state_value(registry, state, key))
    /\ UNCHANGED <<registry, self, state, last, start, runs>>

NextPaths ==
    \E n \in 1..Len(registry.contracts) :
        \E c \in 1..Len(registry.contracts[n].trigger_conditions) :
            \E w \in 1..Len(registry.contracts[n].trigger_conditions[c].when) :
                GetStateValue(registry.contracts[n].trigger_conditions[c].when[w][1])

SpecPaths == InitPaths /\ [][NextPaths]_vars

(***************************************************************************)
(* The turn loop of supervisors constructed with any max_iterations and    *)
(* terminal_response_types argument, omitted, zero and empty included.     *)
(***************************************************************************)
\* the max_iterations argument: omitted, 0, 1, 2
MaxIterationsArgs == {<<>>} \cup {<<n>> : n \in 0..MaxIterArg}

\* the terminal_response_types argument: omitted, empty, one or two types
TerminalTypesArgs == {<<>>, <<{}>>, <<{"final"}>>, <<{"final", "info"}>>}

\* unit keeps the arguments the constructor was called with
InitConfig ==
    /\ registry = NodeRegistry(<<ContractA, ContractB, ContractX>>, {"supervisor", "state"})
    /\ \E max_iterations \in MaxIterationsArgs, terminal_response_types \in TerminalTypesArgs :
          /\ self = __init__("main", FALSE, max_iterations, terminal_response_types, FALSE)
          /\ unit = Unit("__init__",
                         [max_iterations |-> max_iterations,
                          terminal_response_types |-> terminal_response_types],
                         <<>>, FALSE, <<>>)
    /\ start = 0
    /\ state \in InitialStates(start)
    /\ last = NoCall
    /\ runs = 0

NextConfig ==
    \/ \E action \in {"go", "chat"} : UserRequest(action)
    \/ \E rtype \in ResponseTypes : HandlerRespond(rtype)
    \/ \E arb \in ArbFor(self) : Run(arb)
    \/ \E arb \in ArbFor(self) : DecideWithTrace(arb)

SpecConfig == InitConfig /\ [][NextConfig]_vars

(***************************************************************************)
(* A conversational handler called on a state: its contract declares what  *)
(* it writes, its subclass decides what its methods do.                    *)
(***************************************************************************)
\* the writes a handler's contract declares
WritesLists ==
    {<<"response">>, <<"response", "_internal">>, <<"response", "interview", "_internal">>}

\* what a subclass's generate_question returns: a response, with or without
\* the interview slice recording the question, or with the slice left None
QuestionOutputs ==
    {NodeOutputs([sl \in {"response"} |->
                    PyDict([ky \in {"response_type"} |-> PyStr("question")])]),
     NodeOutputs([sl \in {"response", "interview"} |->
                    IF sl = "response"
                    THEN PyDict([ky \in {"response_type"} |-> PyStr("question")])
                    ELSE PyDict([ky \in {"last_question"} |->
                                   PyDict([kz \in {"node_id"} |-> PyStr("A")])])]),
     NodeOutputs([sl \in {"response", "interview"} |->
                    IF sl = "response"
                    THEN PyDict([ky \in {"response_type"} |-> PyStr("question")])
                    ELSE PyNone])}

\* what the methods of the subclass do in one call
NodeBehaviours ==
    [check_completion : BOOLEAN, process_answer : {"True", "False", "raises"},
     generate_question : QuestionOutputs]

\* the states a handler is called on: with or without a request, with or
\* without a previous question
HandlerStates ==
    {PyDict([sl \in present |->
               IF sl = "request" THEN PyDict([ky \in {"action"} |-> PyStr("answer")])
               ELSE PyDict([ky \in {"last_question"} |->
                              PyDict([kz \in {"node_id"} |-> PyStr("A")])])]) :
        present \in SUBSET {"request", "interview"}}

InitHandler ==
    /\ registry \in {NodeRegistry(<<ContractWith(NodeContract("A", "main", <<>>),
                                                 <<"request", "interview">>, writes)>>,
                                   {"supervisor", "state"}) : writes \in WritesLists}
    /\ self = __init__("main", FALSE, <<>>, <<>>, FALSE)
    /\ start = 0
    /\ state \in HandlerStates
    /\ last = NoCall
    /\ runs = 0
    /\ unit = NoUnit

\* updates = await node(state)
CallNode(node) ==
    /\ unit' = Unit("__call__", [node |-> node, state |-> state], registry,
                    __call__(registry.contracts[1], node, state).raised,
                    __call__(registry.contracts[1], node, state))
    /\ UNCHANGED <<registry, self, state, last, start, runs>>

NextHandler == \E node \in NodeBehaviours : CallNode(node)

SpecHandler == InitHandler /\ [][NextHandler]_vars

(***************************************************************************)
(* examples/interactive_tech_support: the five support handlers registered *)
(* in the order of TechSupportCLI._register_nodes, routed without LLM.     *)
(***************************************************************************)
\* when={"request.category": category}
WhenCategory(category) == <<(<<(<<"request", "category">>), PyStr(category)>>)>>

\* a condition carrying only an llm_hint: when and when_not are None
LlmHint(priority) == TriggerCondition(priority, <<>>, <<>>)

\* HardwareNode.CONTRACT, SoftwareNode.CONTRACT, NetworkNode.CONTRACT
CategoryContract(name, category) ==
    ContractWith(NodeContract(name, "tech_support",
                              <<TriggerCondition(100, WhenCategory(category), <<>>),
                                LlmHint(50)>>),
                 <<"request", "support_context">>, <<"response", "support_context">>)

\* GeneralNode.CONTRACT
GeneralContract ==
    ContractWith(NodeContract("general_support", "tech_support", <<LlmHint(10)>>),
                 <<"request", "support_context">>, <<"response">>)

\* ClarificationNode.CONTRACT
ClarificationContract ==
    ContractWith(NodeContract("clarification", "tech_support",
                    <<TriggerCondition(80,
                         <<(<<(<<"_internal", "needs_clarification">>), PyBool(TRUE)>>)>>,
                         <<>>),
                      LlmHint(30)>>),
                 <<"request", "support_context", "_internal">>,
                 <<"response", "support_context", "_internal">>)

\* TechSupportCLI._register_nodes
TechSupportContracts ==
    <<CategoryContract("hardware_support", "hardware"),
      CategoryContract("software_support", "software"),
      CategoryContract("network_support", "network"),
      GeneralContract, ClarificationContract>>

\* what _detect_category returns: a category, or None
Categories == {PyNone, PyStr("hardware"), PyStr("software"), PyStr("network")}

\* TechSupportCLI.__init__: the state of a new session, and the supervisor
\* of _create_supervisor without LLM
InitTechSupport ==
    /\ registry = NodeRegistry(TechSupportContracts, {"supervisor", "state"})
    /\ self = __init__("tech_support", FALSE, <<>>, <<{"final"}>>, FALSE)
    /\ start = 0
    /\ state = PyDict([sl \in {"request", "response", "_internal"} |->
                         IF sl = "request" THEN PyDict([ky \in {"category"} |-> PyNone])
                         ELSE IF sl = "response" THEN PyDict(EmptyMap)
                         ELSE PyDict([ky \in {"decision"} |-> PyStr("")])])
    /\ last = NoCall
    /\ runs = 0
    /\ unit = NoUnit

\* self.state["request"]["category"] = self._detect_category(message)
UserMessage(category) ==
    /\ state' = DictPut(state, "request", DictPut(state.m["request"], "category", category))
    /\ last' = NoCall
    /\ UNCHANGED <<registry, self, start, runs, unit>>

\* self.state["_internal"].update(state_updates["_internal"]) with the
\* needs_clarification flag a handler returns
ClarificationFlag(flag) ==
    /\ state' = DictPut(state, "_internal",
                        DictPut(state.m["_internal"], "needs_clarification", PyBool(flag)))
    /\ last' = NoCall
    /\ UNCHANGED <<registry, self, start, runs, unit>>

NextTechSupport ==
    \/ \E category \in Categories : UserMessage(category)
    \/ \E flag \in BOOLEAN : ClarificationFlag(flag)
    \/ \E rtype \in ResponseTypes \cup {"question"} : HandlerRespond(rtype)
    \/ \E arb \in ArbFor(self) : Decide(arb)
    \/ \E arb \in ArbFor(self) : DecideWithTrace(arb)

SpecTechSupport == InitTechSupport /\ [][NextTechSupport]_vars

(***************************************************************************)
(* Properties                                                              *)
(***************************************************************************)
\* the per-workflow counter of a state, 0 when it is missing
CounterOf(st) ==
    IF HasKey(st, "_internal") /\ HasKey(st.m["_internal"], iteration_key(self.name))
    THEN st.m["_internal"].m[iteration_key(self.name)].i ELSE 0

\* the action of the request slice, "" when there is none
ActionOf(st) ==
    IF HasKey(st, "request") /\ HasKey(st.m["request"], "action")
    THEN st.m["request"].m["action"].s ELSE ""

\* response.response_type is in the configured terminal-type set
TerminalPre(st) ==
    /\ HasKey(st, "response") /\ HasKey(st.m["response"], "response_type")
    /\ st.m["response"].m["response_type"].s \in self.terminal_response_types

\* the handler recorded as the origin of the last question, "" when none
OriginOf(st) ==
    IF /\ HasKey(st, "interview") /\ HasKey(st.m["interview"], "last_question")
       /\ HasKey(st.m["interview"].m["last_question"], "node_id")
    THEN st.m["interview"].m["last_question"].m["node_id"].s ELSE ""

\* the user answers a question whose originating handler is recorded
ExplicitPre(st) == ActionOf(st) = "answer" /\ OriginOf(st) # ""

\* the previous turn's decision if it is a non-terminal one, else "done"
PreviousOrDone(st) ==
    IF /\ HasKey(st, "_internal") /\ HasKey(st.m["_internal"], "decision")
       /\ st.m["_internal"].m["decision"].s \notin {"", "done"}
    THEN st.m["_internal"].m["decision"].s ELSE "done"

\* the handlers registered for this supervisor's workflow
RegisteredHere ==
    {registry.contracts[n].name :
        n \in {o \in 1..Len(registry.contracts) :
                 registry.contracts[o].supervisor = self.name}}

\* the rule matches of the state the last call was given
MatchesOfLast == evaluate_triggers(registry, self.name, last.pre)

IsDecideCall == last.op \in {"decide", "decide_with_trace"}

\* C1: a run() on a state whose counter is at or beyond max_iterations
\* returns an update recording 'done', whatever else the state holds, and
\* calls neither evaluate_triggers nor the Arbitrator.
C1_IterationGuard ==
    (last.op = "run" /\ CounterOf(last.pre) >= self.max_iterations) =>
        /\ ~last.raised
        /\ last.update.m["_internal"].m["decision"] = PyStr("done")
        /\ last.calls.evaluate_triggers = 0
        /\ last.calls.llm = 0

C1_Witness ==
    /\ last.op = "run"
    /\ CounterOf(last.pre) = self.max_iterations
    /\ self.llm /\ last.arb.next_node = "A"
    /\ ~TerminalPre(last.pre)
    /\ MatchesOfLast # <<>> /\ MatchesOfLast[1][1] = 100
    /\ last.update.m["_internal"].m["decision"] = PyStr("done")

\* C2: in a turn loop started with counter 0, at most max_iterations runs
\* are not guard-tripped, and every run after them records 'done'.
C2_TurnLoopTerminates ==
    [][(start = 0 /\ last'.op = "run" /\ ~last'.raised) =>
          /\ runs' <= self.max_iterations
          /\ (runs = self.max_iterations =>
                 state'.m["_internal"].m["decision"] = PyStr("done"))]_vars

C2_Witness ==
    /\ start = 0 /\ runs = self.max_iterations
    /\ last.op = "run" /\ last.guard_tripped
    /\ self.llm /\ last.arb.next_node = "A"
    /\ MatchesOfLast # <<>>
    /\ state.m["_internal"].m["decision"] = PyStr("done")

\* C3: a run() that is not guard-tripped returns the counter it read plus
\* one, a missing counter being read as 0, whichever phase decided and also
\* when the Arbitrator failed.
C3_CounterAdvancesByOne ==
    (last.op = "run" /\ ~last.raised /\ CounterOf(last.pre) < self.max_iterations) =>
        last.update.m["_internal"].m[iteration_key(self.name)]
            = PyInt(CounterOf(last.pre) + 1)

C3_Witness ==
    /\ last.op = "run" /\ ~last.raised
    /\ ~HasKey(last.pre, "_internal")
    /\ last.arb.llm = "raises" /\ last.calls.llm = 1
    /\ last.update.m["_internal"].m[iteration_key(self.name)] = PyInt(1)

\* C4 as stated: a guard-tripped run() returns a counter equal to
\* max_iterations for every input counter at or beyond the maximum.
C4_HeldAtLimit ==
    (last.op = "run" /\ ~last.raised /\ CounterOf(last.pre) >= self.max_iterations) =>
        last.update.m["_internal"].m[iteration_key(self.name)]
            = PyInt(self.max_iterations)

\* C4 amended: a guard-tripped run() returns the counter it read, unchanged
\* (so max_iterations when the input counter is exactly at the maximum).
C4_CounterHeld ==
    (last.op = "run" /\ ~last.raised /\ CounterOf(last.pre) >= self.max_iterations) =>
        last.update.m["_internal"].m[iteration_key(self.name)]
            = PyInt(CounterOf(last.pre))

C4_Witness ==
    /\ last.op = "run" /\ last.guard_tripped
    /\ CounterOf(last.pre) > self.max_iterations
    /\ CounterOf(state) = CounterOf(last.pre)

\* C5: when response.response_type is in the terminal-type set, decide() and
\* decide_with_trace() select 'done' with decision_type terminal_state,
\* whatever the action, the return pointer, the rules, the Arbitrator and the
\* previous decision are.
C5_TerminalPrecedence ==
    (IsDecideCall /\ TerminalPre(last.pre)) =>
        /\ ~last.raised
        /\ last.next_node = "done"
        /\ last.op = "decide_with_trace" => last.routing.decision_type = "terminal_state"

C5_Witness ==
    /\ last.op = "decide_with_trace" /\ TerminalPre(last.pre)
    /\ self.llm /\ last.arb.next_node = "A"
    /\ MatchesOfLast # <<>> /\ MatchesOfLast[1][1] = 100
    /\ PreviousOrDone(last.pre) = "A"
    /\ last.routing.decision_type = "terminal_state"

\* C6: when the action is 'answer', the originating handler X is recorded and
\* the response type is not terminal, decide() and decide_with_trace() return
\* X with decision_type explicit_routing, whatever rules match and whether or
\* not an Arbitrator is configured.
C6_ExplicitReturnRouting ==
    (IsDecideCall /\ ExplicitPre(last.pre) /\ ~TerminalPre(last.pre)) =>
        /\ ~last.raised
        /\ last.next_node = OriginOf(last.pre)
        /\ last.op = "decide_with_trace" => last.routing.decision_type = "explicit_routing"

C6_Witness ==
    /\ last.op = "decide_with_trace"
    /\ ExplicitPre(last.pre) /\ ~TerminalPre(last.pre)
    /\ self.llm /\ last.arb.next_node = "done"
    /\ MatchesOfLast # <<>>
    /\ last.routing.selected_node = "A"
    /\ last.routing.decision_type = "explicit_routing"

\* C7: with no Arbitrator, no terminal response type, no explicit routing and
\* at least one rule match, decide_with_trace() returns rule_match and selects
\* the first element of evaluate_triggers' result.
C7_RuleMatchPicksTop ==
    (/\ last.op = "decide_with_trace" /\ ~self.llm
     /\ ~TerminalPre(last.pre) /\ ~ExplicitPre(last.pre)
     /\ MatchesOfLast # <<>>) =>
        /\ ~last.raised
        /\ last.routing.decision_type = "rule_match"
        /\ last.routing.selected_node = MatchesOfLast[1][2]

C7_Witness ==
    /\ last.op = "decide_with_trace" /\ ~self.llm
    /\ ~TerminalPre(last.pre) /\ ~ExplicitPre(last.pre)
    /\ Len(MatchesOfLast) = 2
    /\ registry.contracts[1].name = "B"
    /\ last.routing.decision_type = "rule_match"
    /\ last.routing.selected_node = "A"

\* C8: with an Arbitrator configured, phases 0 and 0.5 not satisfied and the
\* Arbitrator answering a handler of this workflow or 'done', the decision
\* selects that handler with decision_type llm_decision, arbitration_used,
\* the Arbitrator's rationale and the matched-rule trace of rule evaluation,
\* also when the registry is the repository's own NodeRegistry.
C8_ValidAnswerIsLlmDecision ==
    (/\ last.op = "decide_with_trace" /\ self.llm
     /\ ~TerminalPre(last.pre) /\ ~ExplicitPre(last.pre)
     /\ last.arb.hook = "slices" /\ last.arb.llm = "returns"
     /\ last.arb.next_node \in RegisteredHere \cup {"done"}) =>
        /\ ~last.raised
        /\ last.routing.selected_node = last.arb.next_node
        /\ last.routing.decision_type = "llm_decision"
        /\ last.routing.llm_used
        /\ last.routing.llm_reasoning = last.arb.reasoning
        /\ last.routing.matched_rules = _build_matched_rules(registry, MatchesOfLast)

\* C9: when the Arbitrator returns an id that is neither a handler of this
\* workflow nor 'done', the decision selects the top rule candidate with a
\* rationale noting the substitution if rule candidates exist, and otherwise
\* is the fallback: the previous non-terminal decision, else 'done'.
C9_InvalidAnswerSubstituted ==
    (/\ last.op = "decide_with_trace" /\ last.calls.llm = 1
     /\ last.arb.llm = "returns"
     /\ last.arb.next_node \notin RegisteredHere \cup {"done"}) =>
        /\ ~last.raised
        /\ IF MatchesOfLast # <<>>
           THEN /\ last.routing.selected_node = _select_top_matches(MatchesOfLast)[1]
                /\ last.routing.llm_reasoning =
                     "LLM returned invalid '" \o last.arb.next_node
                        \o "', using rule candidate"
           ELSE /\ last.routing.decision_type = "fallback"
                /\ last.routing.selected_node = PreviousOrDone(last.pre)

C9_Witness ==
    /\ last.op = "decide_with_trace" /\ last.calls.llm = 1
    /\ last.arb.llm = "returns" /\ last.arb.next_node = "X"
    /\ Len(MatchesOfLast) = 2
    /\ last.routing.selected_node = "A"
    /\ last.routing.llm_reasoning = "LLM returned invalid 'X', using rule candidate"

\* C10: when the Arbitrator call raises, decide() and decide_with_trace()
\* return without raising: rule_match with the top rule match if a rule
\* matched, and otherwise fallback (previous non-terminal decision, else 'done').
C10_ArbitratorFailureAbsorbed ==
    (IsDecideCall /\ last.calls.llm = 1 /\ last.arb.llm = "raises") =>
        /\ ~last.raised
        /\ IF MatchesOfLast # <<>>
           THEN /\ last.next_node = MatchesOfLast[1][2]
                /\ last.op = "decide_with_trace" =>
                      last.routing.decision_type = "rule_match"
           ELSE /\ last.next_node = PreviousOrDone(last.pre)
                /\ last.op = "decide_with_trace" =>
                      last.routing.decision_type = "fallback"

C10_Witness ==
    /\ last.op = "decide_with_trace" /\ last.calls.llm = 1
    /\ last.arb.llm = "raises"
    /\ MatchesOfLast = <<>>
    /\ PreviousOrDone(last.pre) = "A"
    /\ last.routing.decision_type = "fallback"
    /\ last.routing.selected_node = "A"

\* the decision types of the data model
DecisionTypes ==
    {"terminal_state", "explicit_routing", "llm_decision", "rule_match", "fallback"}

\* C11: for every state the data model allows (a slice absent, null or not a
\* map), every Arbitrator and every context-builder behaviour, decide(),
\* decide_with_trace() and run() return without raising, the decision type
\* being one of the five of the data model.
C11_NeverRaises ==
    (last.op # "none") =>
        /\ ~last.raised
        /\ last.op = "decide_with_trace" => last.routing.decision_type \in DecisionTypes

\* phases 0 and 0.5 are not satisfied, no rule matches and no Arbitrator is
\* configured
FallbackPre(st) ==
    /\ ~self.llm /\ ~TerminalPre(st) /\ ~ExplicitPre(st)
    /\ evaluate_triggers(registry, self.name, st) = <<>>

\* the internal slice of a state holds a recorded decision
HasDecision(st) == HasKey(st, "_internal") /\ HasKey(st.m["_internal"], "decision")

\* C12: with no rule match, no Arbitrator, phases 0 and 0.5 not satisfied and
\* the previous decision being a non-terminal handler Y, decide() and
\* decide_with_trace() select Y, the decision type being fallback.
C12_PreviousHandlerFallback ==
    (/\ IsDecideCall /\ FallbackPre(last.pre)
     /\ PreviousOrDone(last.pre) \in RegisteredHere) =>
        /\ ~last.raised
        /\ last.next_node = PreviousOrDone(last.pre)
        /\ last.op = "decide_with_trace" => last.routing.decision_type = "fallback"

C12_Witness ==
    /\ last.op = "decide_with_trace" /\ FallbackPre(last.pre)
    /\ ActionOf(last.pre) = "chat"
    /\ PreviousOrDone(last.pre) = "A"
    /\ last.routing.selected_node = "A"
    /\ last.routing.decision_type = "fallback"
    /\ last.routing.matched_rules = <<>>

\* C13: with no rule match, no Arbitrator, phases 0 and 0.5 not satisfied and
\* no previous decision (none recorded, or the recorded one is 'done'),
\* decide() and decide_with_trace() select 'done', the decision type being
\* fallback.
C13_DoneFallback ==
    (/\ IsDecideCall /\ FallbackPre(last.pre)
     /\ PreviousOrDone(last.pre) = "done") =>
        /\ ~last.raised
        /\ last.next_node = "done"
        /\ last.op = "decide_with_trace" => last.routing.decision_type = "fallback"

C13_Witness ==
    /\ last.op = "decide_with_trace" /\ FallbackPre(last.pre)
    /\ ActionOf(last.pre) = "chat"
    /\ HasDecision(last.pre)
    /\ last.pre.m["_internal"].m["decision"] = PyStr("done")
    /\ last.routing.selected_node = "done"
    /\ last.routing.decision_type = "fallback"

\* C14: a fallback decision re-suggests the recorded previous decision only
\* if it is a handler registered for this workflow; whenever the recorded
\* decision is no known handler the fallback selects 'done'.
C14_FallbackChecksHandler ==
    (/\ last.op = "decide_with_trace" /\ ~last.raised
     /\ last.routing.decision_type = "fallback") =>
        last.routing.selected_node =
            IF PreviousOrDone(last.pre) \in RegisteredHere
            THEN PreviousOrDone(last.pre) ELSE "done"

\* C15: in every decision of type llm_decision the selected handler is a
\* handler registered for this workflow or 'done'; an id outside that set,
\* also one registered for another workflow only, is never selected.
C15_ArbitratedNodeIsValid ==
    (/\ last.op = "decide_with_trace" /\ ~last.raised
     /\ last.routing.decision_type = "llm_decision") =>
        last.routing.selected_node \in RegisteredHere \cup {"done"}

C15_Witness ==
    /\ last.op = "decide_with_trace"
    /\ last.routing.decision_type = "llm_decision"
    /\ last.calls.llm = 1 /\ last.arb.next_node = "X"
    /\ "X" \in {registry.contracts[n].name : n \in 1..Len(registry.contracts)}
    /\ last.routing.selected_node \in RegisteredHere

\* C17: one decide() / decide_with_trace() invokes the Arbitrator at most
\* once, also after a failure or an invalid answer, and not at all when no
\* Arbitrator is configured or when phase 0 or phase 0.5 decided.
C17_ArbitratorAtMostOnce ==
    IsDecideCall =>
        /\ last.calls.llm <= 1
        /\ (~self.llm \/ TerminalPre(last.pre) \/ ExplicitPre(last.pre)) =>
              last.calls.llm = 0

C17_Witness ==
    /\ last.op = "decide_with_trace" /\ self.llm
    /\ last.arb.llm = "raises"
    /\ MatchesOfLast = <<>>
    /\ last.calls.llm = 1
    /\ last.routing.decision_type = "fallback"
    /\ last.routing.selected_node = "done"

\* C18: decide() and decide_with_trace() leave the caller's state as it is
\* (every slice, the counter and the recorded decision included), so the
\* run() that follows any number of them sees the state it would have seen.
C18_DecideLeavesState ==
    [][(last'.op \in {"decide", "decide_with_trace"}) => state' = state]_vars

C18_Witness ==
    /\ IsDecideCall /\ ~last.raised
    /\ HasDecision(state)
    /\ last.next_node = "A"
    /\ state.m["_internal"].m["decision"] = PyStr("done")
    /\ CounterOf(state) = 1
    /\ state = last.pre

\* the internal slice run() read: state.get("_internal", {})
InternalOf(st) == IF HasKey(st, "_internal") THEN st.m["_internal"] ELSE PyDict(EmptyMap)

\* C19: run() returns a map whose only top-level key is '_internal'; in it
\* only the recorded decision and this workflow's counter may differ from the
\* input internal slice, every other key (other workflows' counters included)
\* is carried over, and the other slices of the caller's state stay as they
\* were.
C19_UpdateOnlyInternal ==
    (last.op = "run" /\ ~last.raised) =>
        /\ DOMAIN last.update.m = {"_internal"}
        /\ DOMAIN last.update.m["_internal"].m =
              DOMAIN InternalOf(last.pre).m \cup {"decision", iteration_key(self.name)}
        /\ \A ky \in DOMAIN InternalOf(last.pre).m \ {"decision", iteration_key(self.name)} :
              last.update.m["_internal"].m[ky] = InternalOf(last.pre).m[ky]
        /\ \A sl \in DOMAIN last.pre.m \ {"_internal"} : state.m[sl] = last.pre.m[sl]

C19_Witness ==
    /\ last.op = "run" /\ ~last.raised /\ ~last.guard_tripped
    /\ HasKey(InternalOf(last.pre), iteration_key("other"))
    /\ HasDecision(last.pre)
    /\ last.update.m["_internal"].m[iteration_key("other")] = PyInt(7)
    /\ last.update.m["_internal"].m["decision"] # last.pre.m["_internal"].m["decision"]
    /\ HasKey(last.pre, "request") /\ state.m["request"] = last.pre.m["request"]

\* the candidates the contract names for a priority-descending match list:
\* the first 3 and every later match whose priority is the third's
Candidates(matches) ==
    [n \in 1..Cardinality({o \in 1..Len(matches) :
                              o <= 3 \/ matches[o][1] = matches[3][1]}) |->
        matches[n][2]]

\* C16: for every priority-descending match list _select_top_matches returns,
\* in ranking order, exactly the first 3 matches (all if fewer) and every
\* following handler whose priority equals the third's; none of a strictly
\* lower priority than the third is included.
C16_TopThreePlusTies ==
    (unit.op = "_select_top_matches") =>
        /\ unit.ret = Candidates(unit.arg)
        /\ \A n \in 1..Len(unit.ret) :
              Len(unit.arg) >= 3 => unit.arg[n][1] >= unit.arg[3][1]

C16_Witness ==
    /\ unit.op = "_select_top_matches"
    /\ Len(unit.arg) = 5
    /\ unit.arg[2][1] > unit.arg[3][1]
    /\ unit.arg[3][1] = unit.arg[4][1]
    /\ unit.arg[4][1] > unit.arg[5][1]
    /\ unit.ret = <<"n1", "n2", "n3", "n4">>

\* the names a registry holds, in registration order
NamesOf(reg) == [n \in 1..Len(reg.nodes) |-> reg.nodes[n][1]]

\* C20: registering a class whose contract name is already registered raises
\* and leaves the registry as it was: the same class and contract are
\* returned for that name, and the same names in the same order.
C20_DuplicateRejected ==
    (/\ unit.op = "register" /\ unit.arg.CONTRACT # <<>>
     /\ \E n \in 1..Len(unit.pre.nodes) :
           unit.pre.nodes[n][1] = unit.arg.CONTRACT[1].name) =>
        /\ unit.raised
        /\ registry = unit.pre
        /\ get_node_class(registry, unit.arg.CONTRACT[1].name)
              = get_node_class(unit.pre, unit.arg.CONTRACT[1].name)
        /\ get_contract(registry.contracts, unit.arg.CONTRACT[1].name)
              = get_contract(unit.pre.contracts, unit.arg.CONTRACT[1].name)
        /\ get_all_nodes(registry) = NamesOf(unit.pre)

C20_Witness ==
    /\ unit.op = "register" /\ unit.raised
    /\ unit.arg = NodeClass("ANode_other", <<NodeContract("A", "other", <<>>)>>)
    /\ get_all_nodes(registry) = <<"B", "A">>
    /\ get_node_class(registry, "A") = <<"ANode_main">>
    /\ get_contract(registry.contracts, "A")[1].supervisor = "main"

\* the contract registered under a name
ContractOf(reg, name) == get_contract(reg.contracts, name)[1]

\* condition n of a contract holds on a state: every positive predicate
\* matches and no negative one does
Satisfied(reg, contract, n, st) ==
    /\ \A o \in 1..Len(contract.trigger_conditions[n].when) :
          matches_expected(
              _get_state_value(reg, st, contract.trigger_conditions[n].when[o][1]),
              contract.trigger_conditions[n].when[o][2])
    /\ \A o \in 1..Len(contract.trigger_conditions[n].when_not) :
          ~matches_expected(
              _get_state_value(reg, st, contract.trigger_conditions[n].when_not[o][1]),
              contract.trigger_conditions[n].when_not[o][2])

\* the conditions of a contract that hold on a state
SatisfiedOf(reg, contract, st) ==
    {n \in 1..Len(contract.trigger_conditions) : Satisfied(reg, contract, n, st)}

\* C21: every handler evaluate_triggers returns has at least one condition
\* whose positive predicates all hold and whose negative predicates all fail.
C21_ReturnedHandlersMatch ==
    (unit.op = "evaluate_triggers") =>
        \A n \in 1..Len(unit.ret) :
            SatisfiedOf(unit.pre, ContractOf(unit.pre, unit.ret[n][2]), unit.arg) # {}

C21_Witness ==
    /\ unit.op = "evaluate_triggers"
    /\ Len(unit.ret) = 1 /\ unit.ret[1][2] = "B"
    /\ Len(ContractOf(unit.pre, "A").trigger_conditions) = 2
    /\ SatisfiedOf(unit.pre, ContractOf(unit.pre, "A"), unit.arg) = {}
    /\ ContractOf(unit.pre, "C").trigger_conditions = <<>>
    /\ SatisfiedOf(unit.pre, ContractOf(unit.pre, "B"), unit.arg) = {1}

\* the highest priority among the conditions of a contract that hold
MaxSatisfied(reg, contract, st) ==
    CHOOSE p \in {contract.trigger_conditions[n].priority :
                    n \in SatisfiedOf(reg, contract, st)} :
        \A n \in SatisfiedOf(reg, contract, st) :
            contract.trigger_conditions[n].priority <= p

\* C22: the priority evaluate_triggers reports for a handler is the maximum
\* priority among its satisfied conditions, in whichever order the conditions
\* are listed, and never the priority of an unsatisfied condition.
C22_ReportsHighestSatisfied ==
    (unit.op = "evaluate_triggers") =>
        \A n \in 1..Len(unit.ret) :
            /\ SatisfiedOf(unit.pre, ContractOf(unit.pre, unit.ret[n][2]), unit.arg) # {}
            /\ unit.ret[n][1] =
                  MaxSatisfied(unit.pre, ContractOf(unit.pre, unit.ret[n][2]), unit.arg)

C22_Witness ==
    /\ unit.op = "evaluate_triggers"
    /\ ContractOf(unit.pre, "A").trigger_conditions
          = <<TriggerCondition(10, WhenGo, <<>>), TriggerCondition(100, WhenGo, <<>>)>>
    /\ ContractOf(unit.pre, "B").trigger_conditions
          = <<TriggerCondition(50, <<>>, WhenNotFinal),
              TriggerCondition(100, WhenAnswer, <<>>)>>
    /\ SatisfiedOf(unit.pre, ContractOf(unit.pre, "A"), unit.arg) = {1, 2}
    /\ SatisfiedOf(unit.pre, ContractOf(unit.pre, "B"), unit.arg) = {1}
    /\ <<100, "A">> \in {unit.ret[n] : n \in 1..Len(unit.ret)}
    /\ <<50, "B">> \in {unit.ret[n] : n \in 1..Len(unit.ret)}

\* C23: the result of evaluate_triggers is sorted by reported priority in
\* descending order, whatever the contracts and the registration order.
C23_SortedByPriority ==
    (unit.op = "evaluate_triggers") =>
        \A n, o \in 1..Len(unit.ret) : n < o => unit.ret[n][1] >= unit.ret[o][1]

C23_Witness ==
    /\ unit.op = "evaluate_triggers"
    /\ unit.ret = <<(<<100, "C">>), (<<50, "B">>), (<<10, "A">>)>>

\* the place of a handler in the registration order
RegIndex(reg, name) == CHOOSE n \in 1..Len(reg.contracts) : reg.contracts[n].name = name

\* the handlers of the state's matches that are reported at the top priority
TopTied(reg, supervisor, st) ==
    {evaluate_triggers(reg, supervisor, st)[n][2] :
        n \in {o \in 1..Len(evaluate_triggers(reg, supervisor, st)) :
                 \A q \in 1..Len(evaluate_triggers(reg, supervisor, st)) :
                    evaluate_triggers(reg, supervisor, st)[q][1]
                       <= evaluate_triggers(reg, supervisor, st)[o][1]}}

\* C24: handlers reported at the same priority appear in registration order,
\* and a supervisor without Arbitrator deciding by rule selects, among the
\* handlers tied at the top priority, the one registered first.
C24_TiesInRegistrationOrder ==
    /\ (unit.op = "evaluate_triggers") =>
          \A n, o \in 1..Len(unit.ret) :
             (n < o /\ unit.ret[n][1] = unit.ret[o][1]) =>
                RegIndex(unit.pre, unit.ret[n][2]) < RegIndex(unit.pre, unit.ret[o][2])
    /\ (last.op = "decide_with_trace" /\ ~last.raised
         /\ last.routing.decision_type = "rule_match") =>
          /\ last.routing.selected_node \in TopTied(registry, self.name, last.pre)
          /\ \A name \in TopTied(registry, self.name, last.pre) :
                RegIndex(registry, last.routing.selected_node) <= RegIndex(registry, name)

C24_Witness ==
    /\ unit.op = "evaluate_triggers"
    /\ unit.ret = <<(<<100, "A">>), (<<100, "C">>), (<<50, "B">>)>>
    /\ last.op = "decide_with_trace" /\ last.pre = unit.arg
    /\ last.routing.decision_type = "rule_match"
    /\ last.routing.selected_node = "A"

\* the conditions of a contract that carry no predicate
Unconditional(contract) ==
    {n \in 1..Len(contract.trigger_conditions) :
        /\ contract.trigger_conditions[n].when = <<>>
        /\ contract.trigger_conditions[n].when_not = <<>>}

\* C30: a condition with no predicates matches every state: its handler is
\* returned by evaluate_triggers for every state, at a priority at least that
\* condition's.
C30_NoPredicateAlwaysMatches ==
    (unit.op = "evaluate_triggers") =>
        \A m \in 1..Len(unit.pre.contracts) :
            (unit.pre.contracts[m].supervisor = self.name) =>
                \A n \in Unconditional(unit.pre.contracts[m]) :
                    \E o \in 1..Len(unit.ret) :
                        /\ unit.ret[o][2] = unit.pre.contracts[m].name
                        /\ unit.ret[o][1] >= unit.pre.contracts[m].trigger_conditions[n].priority

C30_Witness ==
    /\ unit.op = "evaluate_triggers"
    /\ unit.arg = PyDict(EmptyMap)
    /\ Unconditional(ContractOf(unit.pre, "A")) = {1}
    /\ ContractOf(unit.pre, "B").trigger_conditions = <<TriggerCondition(50, WhenGoFlat, <<>>)>>
    /\ Unconditional(ContractOf(unit.pre, "C")) = {}
    /\ unit.ret = <<(<<10, "A">>)>>

\* C27: with no Arbitrator the decision is a function of the registered
\* contracts, the configuration and the state: decide_with_trace gives the
\* same handler, decision type and matched rules in every process, whatever
\* order the process iterates its slice set in, also for flat keys that occur
\* in more than one slice.
C27_SameDecisionInEveryProcess ==
    (last.op = "decide_with_trace" /\ ~self.llm) =>
        \A order \in SliceOrders :
            /\ decide_with_trace(self, [registry EXCEPT !.slice_order = order],
                                 last.pre, NoArbitrator).selected_node
                  = last.routing.selected_node
            /\ decide_with_trace(self, [registry EXCEPT !.slice_order = order],
                                 last.pre, NoArbitrator).decision_type
                  = last.routing.decision_type
            /\ decide_with_trace(self, [registry EXCEPT !.slice_order = order],
                                 last.pre, NoArbitrator).matched_rules
                  = last.routing.matched_rules

\* a predicate matches: a boolean expectation by the truthiness of the value
\* the path resolves to, any other by equality (Python's ==) with it
PredicateMatches(reg, st, predicate) ==
    IF predicate[2].k = "bool"
    THEN Truthy(_get_state_value(reg, st, predicate[1])) <=> (predicate[2].i = 1)
    ELSE PyEq(_get_state_value(reg, st, predicate[1]), predicate[2])

\* C25: a boolean expected value matches by the truthiness of the resolved
\* value (True the truthy values, False the falsy ones), any other expected
\* value by equality with it; a condition matches iff all of its positive
\* predicates match and none of its negative predicates does.
C25_PredicateComparison ==
    (unit.op = "_evaluate_condition") =>
        unit.ret =
            (/\ \A n \in 1..Len(unit.arg.condition.when) :
                   PredicateMatches(unit.pre, unit.arg.state, unit.arg.condition.when[n])
             /\ \A n \in 1..Len(unit.arg.condition.when_not) :
                   ~PredicateMatches(unit.pre, unit.arg.state,
                                     unit.arg.condition.when_not[n]))

C25_Witness ==
    /\ unit.op = "_evaluate_condition"
    /\ unit.arg.condition.when
          = <<(<<(<<"request", "flag">>), PyBool(TRUE)>>),
              (<<(<<"request", "other">>), PyStr("go")>>)>>
    /\ unit.arg.condition.when_not = <<(<<(<<"request", "other">>), PyBool(TRUE)>>)>>
    /\ unit.arg.state.m["request"].m
          = [ky \in {"flag", "other"} |-> IF ky = "flag" THEN PyStr("go") ELSE PyStr("go")]
    /\ unit.ret = FALSE

\* a dotted path that does not resolve: the slice, or a key on the way, is
\* missing
RECURSIVE Unresolved(_, _)
Unresolved(value, parts) ==
    IF parts = <<>> THEN FALSE
    ELSE \/ ~HasKey(value, Head(parts))
         \/ Unresolved(value.m[Head(parts)], Tail(parts))

\* C26: an unresolved path yields the absent value, and a positive predicate
\* on an unresolved path holds only when the absence itself is expected: for
\* every other expected value, booleans included, it does not hold.
C26_AbsentMatchesOnlyAbsence ==
    (/\ unit.op = "_evaluate_condition"
     /\ Len(unit.arg.condition.when) = 1 /\ unit.arg.condition.when_not = <<>>
     /\ Unresolved(unit.arg.state, unit.arg.condition.when[1][1])) =>
        /\ _get_state_value(unit.pre, unit.arg.state, unit.arg.condition.when[1][1]) = PyNone
        /\ unit.ret = (unit.arg.condition.when[1][2] = PyNone)

\* C28: issues that are only warned about never block registration: a class
\* whose contract name is not registered yet is registered, and its class and
\* contract are returned for that name afterwards, also when the contract
\* reads or writes unknown slices, writes to 'request', has an empty
\* supervisor or no trigger condition; a class with a contract is rejected
\* only for a name that is already registered.
C28_WarningsDoNotBlock ==
    (unit.op = "register" /\ unit.arg.CONTRACT # <<>>) =>
        /\ unit.raised <=> (\E n \in 1..Len(unit.pre.nodes) :
                               unit.pre.nodes[n][1] = unit.arg.CONTRACT[1].name)
        /\ ~unit.raised =>
              /\ get_node_class(registry, unit.arg.CONTRACT[1].name) = <<unit.arg.name>>
              /\ get_contract(registry.contracts, unit.arg.CONTRACT[1].name)
                    = unit.arg.CONTRACT
              /\ get_all_nodes(registry) = NamesOf(unit.pre) \o <<unit.arg.CONTRACT[1].name>>

C28_Witness ==
    /\ unit.op = "register" /\ ~unit.raised
    /\ unit.arg = NodeClass("DNode", <<ContractD>>)
    /\ Len(_validate_contract(unit.pre, ContractD)) = 3
    /\ ContractD.supervisor = "" /\ ContractD.trigger_conditions = <<>>
    /\ get_all_nodes(registry) = <<"A", "D">>
    /\ get_contract(registry.contracts, "D") = <<ContractD>>

\* the slices the claim expects in the context: the builder's "slices" when
\* there is a builder and its result has the entry, else the default set
ExpectedSlices(slf, result) ==
    IF slf.context_builder /\ result.slices # <<>> THEN result.slices[1]
    ELSE {"request", "response", "_internal"}

\* the elements of a sequence
Elements(seq) == {seq[n] : n \in 1..Len(seq)}

C31_NoConditionNeverByRule ==
    /\ (unit.op = "evaluate_triggers") =>
          \A n \in 1..Len(unit.ret) :
             ContractOf(unit.pre, unit.ret[n][2]).trigger_conditions # <<>>
    /\ (last.op = "decide_with_trace" /\ ~last.raised
         /\ last.routing.decision_type = "rule_match") =>
          \A m \in 1..Len(registry.contracts) :
             (registry.contracts[m].name = last.routing.selected_node) =>
                registry.contracts[m].trigger_conditions # <<>>

C31_Witness ==
    /\ unit.op = "evaluate_triggers"
    /\ ContractOf(unit.pre, "A").trigger_conditions = <<>>
    /\ unit.ret = <<(<<50, "B">>), (<<10, "C">>)>>
    /\ last.op = "decide_with_trace" /\ last.pre = unit.arg
    /\ last.routing.decision_type = "rule_match"
    /\ last.routing.selected_node = "B"

\* C32: evaluate_triggers(supervisor, state) returns only handlers whose
\* contract names that supervisor, each at most once; a handler of another
\* workflow is not returned even when its conditions hold, and is never the
\* handler of a rule_match decision of this supervisor.
C32_WorkflowIsolation ==
    /\ (unit.op = "evaluate_triggers") =>
          /\ \A n \in 1..Len(unit.ret) :
                ContractOf(unit.pre, unit.ret[n][2]).supervisor = self.name
          /\ \A n, o \in 1..Len(unit.ret) :
                (unit.ret[n][2] = unit.ret[o][2]) => n = o
    /\ (last.op = "decide_with_trace" /\ ~last.raised
         /\ last.routing.decision_type = "rule_match") =>
          last.routing.selected_node \in RegisteredHere

C32_Witness ==
    /\ unit.op = "evaluate_triggers"
    /\ ContractOf(unit.pre, "X").supervisor = "other"
    /\ SatisfiedOf(unit.pre, ContractOf(unit.pre, "X"), unit.arg) = {1}
    /\ unit.ret = <<(<<50, "A">>), (<<50, "B">>), (<<50, "C">>)>>
    /\ last.op = "decide_with_trace" /\ last.pre = unit.arg
    /\ last.routing.decision_type = "rule_match"
    /\ last.routing.selected_node = "A"

\* the value stored at a path every step of which is a key of a map
RECURSIVE StoredAt(_, _)
StoredAt(value, parts) ==
    IF parts = <<>> THEN value ELSE StoredAt(value.m[Head(parts)], Tail(parts))

\* C33: a dotted path is resolved by descending through nested maps from
\* state[slice]: when the slice or a key on the way is missing, or a value on
\* the way is no map (null, scalar, list), the result is the absent value and
\* nothing is raised; otherwise the result is the value stored at the path.
C33_DottedPathResolution ==
    (unit.op = "_get_state_value") =>
        /\ ~unit.raised
        /\ unit.ret = IF Unresolved(unit.arg.state, unit.arg.key) THEN PyNone
                      ELSE StoredAt(unit.arg.state, unit.arg.key)

C33_Witness ==
    /\ unit.op = "_get_state_value"
    /\ unit.arg.key = <<"request", "a", "b">>
    /\ unit.arg.state = PyDict([sl \in {"request"} |-> PyDict([ky \in {"a"} |-> PyList])])
    /\ unit.ret = PyNone

\* C34: in a session started with the counter absent or 0, whatever runs,
\* decide calls and handler updates went before, the counter of the merged
\* state is between 0 and max_iterations and equals the number of runs that
\* were not guard-tripped.
C34_CounterBounded ==
    (start = 0) =>
        /\ 0 <= CounterOf(state) /\ CounterOf(state) <= self.max_iterations
        /\ runs = CounterOf(state)

C34_Witness ==
    /\ start = 0 /\ self.max_iterations = 2
    /\ last.op = "run" /\ last.guard_tripped
    /\ ~HasKey(last.pre, "request") /\ HasKey(last.pre, "interview")
    /\ HasKey(last.pre, "response")
    /\ runs = 2 /\ CounterOf(state) = 2

\* response.response_type of a state, "" when there is none
ResponseTypeOf(st) ==
    IF HasKey(st, "response") /\ HasKey(st.m["response"], "response_type")
    THEN st.m["response"].m["response_type"].s ELSE ""

\* C35: a supervisor constructed with a max_iterations argument, 0 included,
\* trips the guard of run() exactly when the counter is at or beyond the
\* argument; one constructed with a terminal_response_types argument, the
\* empty set included, decides terminal_state exactly for the response types
\* of the argument.
C35_PassedValuesUsed ==
    /\ (unit.op = "__init__" /\ unit.arg.max_iterations # <<>>
         /\ last.op = "run" /\ ~last.raised) =>
          (last.guard_tripped <=> CounterOf(last.pre) >= unit.arg.max_iterations[1])
    /\ (unit.op = "__init__" /\ unit.arg.terminal_response_types # <<>>
         /\ last.op = "decide_with_trace" /\ ~last.raised) =>
          (last.routing.decision_type = "terminal_state"
             <=> ResponseTypeOf(last.pre) \in unit.arg.terminal_response_types[1])

\* how a matched rule describes a condition: its positive predicates, else
\* its negative ones, else "(always)"
DescriptionOf(condition) ==
    IF condition.when # <<>> THEN [form |-> "when", items |-> condition.when]
    ELSE IF condition.when_not # <<>>
    THEN [form |-> "when_not", items |-> condition.when_not]
    ELSE [form |-> "(always)", items |-> <<>>]

\* C36: the matched_rules of a rule_match or llm_decision decision has one
\* entry per match evaluate_triggers returned, in the same order and with
\* the same handler and priority, and each entry describes a condition of
\* its handler that holds on the state, also when the handler has several
\* conditions of the same priority of which only a later one holds.
C36_TraceFidelity ==
    (/\ last.op = "decide_with_trace" /\ ~last.raised
     /\ last.routing.decision_type \in {"rule_match", "llm_decision"}) =>
        /\ Len(last.routing.matched_rules) = Len(MatchesOfLast)
        /\ \A n \in 1..Len(last.routing.matched_rules) :
              /\ last.routing.matched_rules[n].node = MatchesOfLast[n][2]
              /\ last.routing.matched_rules[n].priority = MatchesOfLast[n][1]
              /\ \E c \in SatisfiedOf(registry, ContractOf(registry, MatchesOfLast[n][2]),
                                      last.pre) :
                    last.routing.matched_rules[n].condition
                      = DescriptionOf(ContractOf(registry, MatchesOfLast[n][2])
                                         .trigger_conditions[c])

\* C37: every decision decide_with_trace returns, whichever phase made it,
\* selects 'done' or a handler registered for this supervisor's workflow,
\* whatever strings the state holds as the origin of the last question or
\* as the previous decision.
C37_SelectsRegisteredOrDone ==
    (last.op = "decide_with_trace" /\ ~last.raised) =>
        last.routing.selected_node \in RegisteredHere \cup {"done"}

\* the place of a method in a trace, 0 when it was not called
PlaceOf(trace, method) ==
    IF \E n \in 1..Len(trace) : trace[n] = method
    THEN CHOOSE n \in 1..Len(trace) : trace[n] = method ELSE 0

\* the state holds a previous question
HasPreviousQuestion(st) ==
    HasKey(st, "interview") /\ HasKey(st.m["interview"], "last_question")

\* C38: InteractiveNode.execute calls check_completion first, process_answer
\* only when a previous question exists, and generate_question only when the
\* task is not complete; a complete task returns the completion output
\* (decision 'done' in the internal slice) without generate_question.
C38_StandardFlow ==
    (unit.op = "__call__" /\ ~unit.raised) =>
        /\ PlaceOf(unit.ret.trace, "check_completion") > 0
        /\ PlaceOf(unit.ret.trace, "process_answer") > 0
              <=> HasPreviousQuestion(unit.arg.state)
        /\ PlaceOf(unit.ret.trace, "process_answer") > 0 =>
              PlaceOf(unit.ret.trace, "check_completion")
                 < PlaceOf(unit.ret.trace, "process_answer")
        /\ PlaceOf(unit.ret.trace, "generate_question") > 0
              <=> ~unit.arg.node.check_completion
        /\ unit.arg.node.check_completion =>
              unit.ret.update
                = PyDict([sl \in {"_internal"} |->
                            PyDict([ky \in {"decision"} |-> PyStr("done")])])

\* C39: the update a handler's __call__ returns holds only slices its
\* contract declares in writes, whatever its execute produced, the default
\* completion output of InteractiveNode included.
C39_UpdateWithinWrites ==
    (unit.op = "__call__" /\ ~unit.raised) =>
        DOMAIN unit.ret.update.m
           \subseteq {unit.pre.contracts[1].writes[n] :
                        n \in 1..Len(unit.pre.contracts[1].writes)}

\* C40: in the tech_support example without Arbitrator, a request whose
\* category is none of hardware, software and network and whose
\* needs_clarification flag is not set is routed to general_support (the
\* response of the turn before being no terminal one).
C40_GeneralSupportFallback ==
    (/\ last.op = "decide_with_trace" /\ ~last.raised /\ ~self.llm
     /\ last.pre.m["request"].m["category"]
           \notin {PyStr("hardware"), PyStr("software"), PyStr("network")}
     /\ DictGet(last.pre.m["_internal"], "needs_clarification", PyBool(FALSE)) = PyBool(FALSE)
     /\ ~TerminalPre(last.pre)) =>
        last.routing.selected_node = "general_support"

====
